---- MODULE Spec2Model ----
(***************************************************************************)
(* Model of the four rental-listing ingestion scripts                      *)
(*   bos_realtor_ingest.py, nyc_realtor_ingest.py,                         *)
(*   bos_redfin_ingest.py,  nyc_redfin_ingest.py.                          *)
(* One run of one script is a single-threaded state machine: module import *)
(* (API key check), the partition loop, the per-ZIP pagination loop, the   *)
(* retrying fetch, the aggregation and the PostgreSQL load.                *)
(***************************************************************************)
EXTENDS Integers, Sequences, FiniteSets, TLC

VARIABLES
  source,       \* which of the four scripts runs
  settings,     \* config.settings: API_KEY, DATABASE_URL and the DB_* parts
  pc,           \* position of the script
  err,          \* the uncaught exception that ended the run, or None
  zipIdx,       \* index of the partition the main loop is at
  page,         \* fetch_and_clean_zip: page
  total_count,  \* fetch_and_clean_zip: total_count (Redfin scripts)
  listings,     \* fetch_and_clean_zip: listings
  ret,          \* what the last fetcher call returned
  attempt,      \* fetcher: attempt of the for loop
  nReq,         \* number of requests.get calls of the current fetcher call
  wait_time,    \* fetcher: the last wait_time slept (0 before any)
  nWaits,       \* number of time.sleep(wait_time) of the current fetcher call
  outcome,      \* how the last attempt of the current fetcher call ended
  master_df,    \* main block: master_df
  table,        \* committed rows of the destination table
  prior,        \* the rows the table held when the run started
  served,       \* sizes of the non-empty pages returned for the current partition
  servedRun,    \* the same, for each partition before it
  declared,     \* what the first fetcher call of the partition returned as count
  rawItem,      \* a raw record of a response, as parse_listing receives it
  record,       \* that record as the steps after the fetch have made it so far
  ppc,          \* rental_pipeline.py: position of the master script
  step,         \* rental_pipeline.py: which script or SQL file it is at
  stmt,         \* execute_sql: index of the statement it is at
  sqlFiles,     \* the statements sqlparse.split gives for each SQL file
  started,      \* labels of the steps the master script has started
  committed,    \* the SQL statements committed so far, as <<file, index>>
  pipe_err,     \* the exception that ended the master script's work, or None
  status_calls, \* the statuses update_status was called with
  status_rows,  \* rows this run inserted into analytics.pipeline_status
  exit_code     \* exit status of the master script's process, once it ended

\* the run's environment, fixed at start
env == <<source, settings, prior>>
\* locals of fetch_and_clean_zip
zipLocals == <<page, total_count, listings, ret>>
\* locals of the fetcher, and what it did in the current call
fetchLocals == <<attempt, nReq, wait_time, nWaits, outcome>>
\* what the upstream has sent
sent == <<served, servedRun, declared>>

\* one record on its way from the response to the frame
recordVars == <<rawItem, record>>

\* the master pipeline
pipeVars == <<ppc, step, stmt, sqlFiles, started, committed, pipe_err,
              status_calls, status_rows, exit_code>>

\* one ingestion script
runVars == <<env, pc, err, zipIdx, zipLocals, fetchLocals, master_df, table, sent,
             recordVars>>

vars == <<runVars, pipeVars>>

(* ------------------------------------------------------------------ *)
(* Bounds of the model                                                 *)
(* ------------------------------------------------------------------ *)

\* number of partitions (ZIP codes) of the static list that one run visits
NumZips == 2
\* page number after which the upstream has no further full page
MaxPages == 2
\* largest page the Redfin upstream returns (the Redfin request has no limit)
MaxPageLen == 1
\* largest totalResultCount the Redfin upstream declares
MaxTotal == 2
\* most rows of a frame handed to the aggregation as such
MaxRows == 3

(* ------------------------------------------------------------------ *)
(* Program constants                                                   *)
(* ------------------------------------------------------------------ *)

Sources == {"bos_realtor", "nyc_realtor", "bos_redfin", "nyc_redfin"}

IsRealtor(s) == s \in {"bos_realtor", "nyc_realtor"}
IsRedfin(s) == s \in {"bos_redfin", "nyc_redfin"}
IsBoston(s) == s \in {"bos_realtor", "bos_redfin"}

\* "limit": 200 of the Realtor request, and the short-page test len(data) < 200
Limit == 200

\* default of the max_retries parameter of the four fetchers
MaxRetries(s) == IF s = "nyc_realtor" THEN 5 ELSE 3

\* default of the backoff_factor parameter of the four fetchers
BackoffFactor == 2

\* Python's None
None == "None"

\* HTTP statuses raise_for_status() turns into HTTPError; 500 stands for
\* every status that is neither 429 nor 504
ErrorStatuses == {429, 504, 500}

RECURSIVE Pow2(_)
Pow2(n) == IF n = 0 THEN 1 ELSE 2 * Pow2(n - 1)

(* ------------------------------------------------------------------ *)
(* Static partition lists                                              *)
(* ------------------------------------------------------------------ *)

\* A ZIP code is a Python str, made of its five characters.
Z(a, b, c, d, e) == a \o b \o c \o d \o e

\* BOS_ZIP_TO_NEIGHBORHOOD: the first four entries of the dict, in dict
\* order, and the entry of 02116, each with the neighborhood it maps to
BOS_ZIP_TO_NEIGHBORHOOD ==
  << [zip |-> Z("0","2","1","0","8"), region |-> "Beacon Hill"],
     [zip |-> Z("0","2","1","0","9"), region |-> "Financial District"],
     [zip |-> Z("0","2","1","1","0"), region |-> "Financial District"],
     [zip |-> Z("0","2","1","1","1"), region |-> "Chinatown"],
     [zip |-> Z("0","2","1","1","6"), region |-> "Back Bay"] >>

\* NYC_ZIPS_BY_BOROUGH flattened as the nested loop of the main block visits
\* it: the first ZIP of each of the first four boroughs, in dict order
NYC_ZIPS_BY_BOROUGH ==
  << [zip |-> Z("1","0","0","0","1"), region |-> "Manhattan"],
     [zip |-> Z("1","0","3","0","1"), region |-> "Staten Island"],
     [zip |-> Z("1","0","4","5","1"), region |-> "Bronx"],
     [zip |-> Z("1","1","0","0","4"), region |-> "Queens"] >>

\* the partitions one run iterates over, in order
Partitions(s) ==
  SubSeq(IF IsBoston(s) THEN BOS_ZIP_TO_NEIGHBORHOOD ELSE NYC_ZIPS_BY_BOROUGH,
         1, NumZips)

\* variant: every code maps to the neighborhood of the dict's first entry
MapNeighborhoodOfFirst(zip) == BOS_ZIP_TO_NEIGHBORHOOD[1].region

\* df["zip_code"].map(BOS_ZIP_TO_NEIGHBORHOOD): the mapped neighborhood, NaN
\* (None) for a code that is no key of the dict
MapNeighborhood(zip) ==
  IF \E k \in 1..Len(BOS_ZIP_TO_NEIGHBORHOOD) : BOS_ZIP_TO_NEIGHBORHOOD[k].zip = zip
  THEN BOS_ZIP_TO_NEIGHBORHOOD[
         CHOOSE k \in 1..Len(BOS_ZIP_TO_NEIGHBORHOOD) :
           BOS_ZIP_TO_NEIGHBORHOOD[k].zip = zip].region
  ELSE None

(* ------------------------------------------------------------------ *)
(* JSON values and the dict accessors                                  *)
(* ------------------------------------------------------------------ *)

\* A Python value read from the response JSON, tagged with its type: "null"
\* (None), "str", "num", "float", "nan", "obj" (a dict).  A dict is a record over
\* the keys it may hold; a key the dict does not have holds JMissing.
J(t, v) == [t |-> t, v |-> v]
JNull == J("null", 0)
JMissing == J("missing", 0)
JStr(x) == J("str", x)
JNum(n) == J("num", n)
JObj(f) == J("obj", f)

\* {}
EmptyDict == JObj([nokey |-> JMissing])

\* isinstance(obj, dict)
IsDict(j) == j.t = "obj"

\* key in d
HasKey(d, key) == key \in DOMAIN d.v /\ d.v[key].t # "missing"

\* d.get(key, default)
GetOr(d, key, default) == IF HasKey(d, key) THEN d.v[key] ELSE default

\* d.get(key)
Get(d, key) == GetOr(d, key, JNull)

\* bool(x): None, "", 0 and {} are falsy
Truthy(j) ==
  CASE j.t \in {"null", "missing"} -> FALSE
    [] j.t = "str" -> Len(j.v) > 0
    [] j.t = "num" -> j.v # 0
    [] j.t = "obj" -> \E k \in DOMAIN j.v : j.v[k].t # "missing"
    [] OTHER -> TRUE

\* x or {}
OrEmptyDict(j) == IF Truthy(j) THEN j ELSE EmptyDict

\* variant: the walk stops at a value that is no dict and returns it
RECURSIVE safe_get_last_reached(_, _)
safe_get_last_reached(obj, keys) ==
  IF keys = <<>> THEN obj
  ELSE IF IsDict(obj) THEN safe_get_last_reached(Get(obj, Head(keys)), Tail(keys))
  ELSE obj

\* safe_get(obj, *keys): for key in keys: obj = obj.get(key) if obj is a
\* dict, else return None
RECURSIVE safe_get(_, _)
safe_get(obj, keys) ==
  IF keys = <<>> THEN obj
  ELSE IF IsDict(obj) THEN safe_get(Get(obj, Head(keys)), Tail(keys))
  ELSE JNull

\* what a call returns: a value, or the exception it raised
Returned(v) == [raised |-> None, value |-> v]
Raised(e) == [raised |-> e, value |-> JNull]

(* ------------------------------------------------------------------ *)
(* Upstream responses                                                  *)
(* ------------------------------------------------------------------ *)

\* The listing the upstream returns as item i of page p for partition z. The
\* first listing of every page lies in the overlap of the partitions' query
\* areas (same listing identifier and postal code, that of the first
\* partition, whichever partition asks), the others belong to the one
\* partition.
RawListing(s, z, p, i) ==
  [ listing_id |-> JNum(IF i = 1 THEN p * 1000 + i ELSE z * 100000 + p * 1000 + i),
    price |-> JNum(1000 + z),
    zip |-> Partitions(s)[IF i = 1 THEN 1 ELSE z].zip,
    z |-> z, p |-> p, i |-> i ]

\* the "properties" / "data" list of a response carrying n listings
RawPage(s, z, p, n) == [i \in 1..n |-> RawListing(s, z, p, i)]

\* sizes of a Realtor page: empty, one short of the limit, full
RealtorPageSizes == {0, Limit - 1, Limit}

\* sizes of a Redfin page
RedfinPageSizes == 0..MaxPageLen

\* a numeric Python value that may be None
Num(n) == [none |-> FALSE, v |-> n]
NoneNum == [none |-> TRUE, v |-> 0]

\* json_data.get("totalResultCount", 0): a number (0 when the key is
\* missing), or None when the key is present with a null value
DeclaredTotals == {Num(n) : n \in 0..MaxTotal} \cup {NoneNum}

(* ------------------------------------------------------------------ *)
(* Normalization and enrichment of one record                          *)
(* ------------------------------------------------------------------ *)

\* parse_listing: the flat record of a raw listing. listing_id, zip_code and
\* the price (list_price of Realtor, price_min of Redfin) are read from the
\* raw item; z, p, i stand for the item's other attributes (beds, ..., url),
\* which identify the raw item they came from.
parse_listing(item) ==
  [ listing_id |-> item.listing_id,
    price |-> item.price,
    zip_code |-> item.zip,
    z |-> item.z, p |-> item.p, i |-> item.i ]

Min(a, b) == IF a < b THEN a ELSE b

\* str.strip(), for blanks: the leading ones, the trailing ones, both
RECURSIVE LStrip(_)
LStrip(str) ==
  IF Len(str) > 0 /\ Head(str) = " " THEN LStrip(Tail(str)) ELSE str

RECURSIVE RStrip(_)
RStrip(str) ==
  IF Len(str) > 0 /\ SubSeq(str, Len(str), Len(str)) = " "
  THEN RStrip(SubSeq(str, 1, Len(str) - 1)) ELSE str

Strip(str) == RStrip(LStrip(str))

\* str(zip_code)[:5].strip() of nyc_redfin_ingest.py, for a zip_code that is
\* a str
SanitizeZip(zip) == Strip(SubSeq(zip, 1, Min(5, Len(zip))))

\* the borough NYC_ZIPS_BY_BOROUGH lists a postal code under
BoroughOf(zip) ==
  IF \E k \in 1..Len(NYC_ZIPS_BY_BOROUGH) : NYC_ZIPS_BY_BOROUGH[k].zip = zip
  THEN NYC_ZIPS_BY_BOROUGH[
         CHOOSE k \in 1..Len(NYC_ZIPS_BY_BOROUGH) :
           NYC_ZIPS_BY_BOROUGH[k].zip = zip].region
  ELSE None

\* variant: the borough is looked up from the record's own postal code
CleanItemByPostalCode(s, item, borough) ==
  LET rec == parse_listing(item) IN
  IF IsBoston(s) THEN rec
  ELSE [listing_id |-> rec.listing_id, price |-> rec.price,
        zip_code |-> SanitizeZip(rec.zip_code),
        z |-> rec.z, p |-> rec.p, i |-> rec.i,
        region |-> BoroughOf(SanitizeZip(rec.zip_code))]

\* The per-item body of the pagination loop: parse_listing plus, in the NYC
\* scripts, the borough tag of the partition (and the ZIP sanitization of
\* nyc_redfin).  The Boston scripts attach the region later, to the frame.
CleanItem(s, item, borough) ==
  LET rec == parse_listing(item) IN
  CASE s = "nyc_realtor" ->
         [listing_id |-> rec.listing_id, price |-> rec.price,
          zip_code |-> rec.zip_code,
          z |-> rec.z, p |-> rec.p, i |-> rec.i, region |-> borough]
    [] s = "nyc_redfin" ->
         [listing_id |-> rec.listing_id, price |-> rec.price,
          zip_code |-> SanitizeZip(rec.zip_code),
          z |-> rec.z, p |-> rec.p, i |-> rec.i, region |-> borough]
    [] OTHER -> rec

\* for item in data: listings.append(...)
CleanPage(s, data, borough) ==
  [k \in 1..Len(data) |-> CleanItem(s, data[k], borough)]

\* df["neighborhood"] = df["zip_code"].map(BOS_ZIP_TO_NEIGHBORHOOD)
Enrich(rows) ==
  [k \in 1..Len(rows) |->
     [listing_id |-> rows[k].listing_id, price |-> rows[k].price,
      zip_code |-> rows[k].zip_code,
      z |-> rows[k].z, p |-> rows[k].p, i |-> rows[k].i,
      region |-> MapNeighborhood(rows[k].zip_code)]]

(* ------------------------------------------------------------------ *)
(* parse_listing of the Realtor scripts                                *)
(* ------------------------------------------------------------------ *)

RealtorBaseURL == "https://www.realtor.com/rentals/details/"

\* parse_listing of bos_realtor_ingest.py and nyc_realtor_ingest.py.  The
\* dict literal is evaluated entry by entry: x.get on a value that is no
\* dict raises AttributeError, str + a value that is no str raises TypeError.
realtor_parse_listing(raw) ==
  LET description == OrEmptyDict(safe_get(raw, <<"description">>))
      addr == OrEmptyDict(safe_get(raw, <<"location", "address">>))
      coords == OrEmptyDict(safe_get(addr, <<"coordinate">>))
      pet_policy == OrEmptyDict(safe_get(raw, <<"pet_policy">>))
      permalink == GetOr(raw, "permalink", JStr(""))
  IN
  IF ~ IsDict(description) THEN Raised("AttributeError")
  ELSE IF ~ IsDict(addr) THEN Raised("AttributeError")
  ELSE IF ~ IsDict(coords) THEN Raised("AttributeError")
  ELSE IF permalink.t # "str" THEN Raised("TypeError")
  ELSE IF ~ IsDict(pet_policy) THEN Raised("AttributeError")
  ELSE Returned(
    [ listing_id |-> Get(raw, "listing_id"),
      list_price |-> Get(raw, "list_price"),
      beds |-> Get(description, "beds"),
      baths |-> Get(description, "baths_consolidated"),
      sqft |-> Get(description, "sqft"),
      list_date |-> Get(raw, "list_date"),
      zip_code |-> Get(addr, "postal_code"),
      latitude |-> Get(coords, "lat"),
      longitude |-> Get(coords, "lon"),
      address_line |-> Get(addr, "line"),
      url |-> JStr(RealtorBaseURL \o permalink.v),
      pet_cats |-> Get(pet_policy, "cats"),
      pet_dogs |-> Get(pet_policy, "dogs") ])

(* ------------------------------------------------------------------ *)
(* parse_listing of the Redfin scripts                                 *)
(* ------------------------------------------------------------------ *)

RedfinBaseURL == "https://www.redfin.com"

\* rentalExtension.get(key, {}): the default stands in for an absent key
\* only, a key present with null gives None
RangeOf(rentalExtension, key) == GetOr(rentalExtension, key, EmptyDict)

\* parse_listing of bos_redfin_ingest.py and nyc_redfin_ingest.py
redfin_parse_listing(raw) ==
  LET homeData == OrEmptyDict(safe_get(raw, <<"homeData">>))
      rentalExtension == OrEmptyDict(safe_get(raw, <<"rentalExtension">>))
      addr == OrEmptyDict(safe_get(homeData, <<"addressInfo">>))
      coords == OrEmptyDict(safe_get(addr, <<"centroid", "centroid">>))
      rentPriceRange == RangeOf(rentalExtension, "rentPriceRange")
      bedRange == RangeOf(rentalExtension, "bedRange")
      bathRange == RangeOf(rentalExtension, "bathRange")
      sqftRange == RangeOf(rentalExtension, "sqftRange")
      url == GetOr(homeData, "url", JStr(""))
  IN
  IF ~ IsDict(rentalExtension) THEN Raised("AttributeError")
  ELSE IF ~ (IsDict(rentPriceRange) /\ IsDict(bedRange) /\ IsDict(bathRange)
             /\ IsDict(sqftRange))
  THEN Raised("AttributeError")
  ELSE IF ~ IsDict(addr) THEN Raised("AttributeError")
  ELSE IF ~ IsDict(coords) THEN Raised("AttributeError")
  ELSE IF ~ IsDict(homeData) THEN Raised("AttributeError")
  ELSE IF url.t # "str" THEN Raised("TypeError")
  ELSE Returned(
    [ listing_id |-> Get(rentalExtension, "rentalId"),
      price_min |-> Get(rentPriceRange, "min"),
      price_max |-> Get(rentPriceRange, "max"),
      beds_min |-> Get(bedRange, "min"),
      beds_max |-> Get(bedRange, "max"),
      baths_min |-> Get(bathRange, "min"),
      baths_max |-> Get(bathRange, "max"),
      sqft_min |-> Get(sqftRange, "min"),
      sqft_max |-> Get(sqftRange, "max"),
      zip_code |-> Get(addr, "zip"),
      latitude |-> Get(coords, "latitude"),
      longitude |-> Get(coords, "longitude"),
      address_line |-> Get(addr, "formattedStreetLine"),
      url |-> JStr(RedfinBaseURL \o url.v) ])

(* ------------------------------------------------------------------ *)
(* Text of numbers                                                     *)
(* ------------------------------------------------------------------ *)

Digits == {"0", "1", "2", "3", "4", "5", "6", "7", "8", "9"}

\* the characters the class [\d\.] matches
NumericChars == Digits \cup {"."}

\* the longest prefix of str made of characters of cs
RECURSIVE Span(_, _)
Span(str, cs) ==
  IF Len(str) > 0 /\ Head(str) \in cs
  THEN Head(str) \o Span(Tail(str), cs) ELSE ""

\* re.search(r'([\d\.]+)', str): the first maximal run of digits and dots,
\* "" when there is none
RECURSIVE FirstNumericToken(_)
FirstNumericToken(str) ==
  IF Len(str) = 0 THEN ""
  ELSE IF Head(str) \in NumericChars THEN Span(str, NumericChars)
  ELSE FirstNumericToken(Tail(str))

\* str.replace(c, "") for a character c
RECURSIVE Remove(_, _)
Remove(str, c) ==
  IF Len(str) = 0 THEN ""
  ELSE IF Head(str) = c THEN Remove(Tail(str), c)
  ELSE Head(str) \o Remove(Tail(str), c)

\* the number of occurrences of the character c in str
RECURSIVE Count(_, _)
Count(str, c) ==
  IF Len(str) = 0 THEN 0
  ELSE (IF Head(str) = c THEN 1 ELSE 0) + Count(Tail(str), c)

\* float(str) accepts str: an unsigned decimal literal, digits with at most
\* one dot and at least one digit (blanks around it are allowed)
IsFloatLiteral(str) ==
  LET t == Strip(str) IN
  /\ Span(t, NumericChars) = t
  /\ Count(t, ".") <= 1
  /\ Len(Remove(t, ".")) > 0

\* the part of str before the first dot, and the part after it
RECURSIVE BeforeDot(_)
BeforeDot(str) ==
  IF Len(str) = 0 \/ Head(str) = "." THEN "" ELSE Head(str) \o BeforeDot(Tail(str))

AfterDot(str) ==
  IF Count(str, ".") = 0 THEN ""
  ELSE SubSeq(str, Len(BeforeDot(str)) + 2, Len(str))

RECURSIVE LStripZeros(_)
LStripZeros(str) ==
  IF Len(str) > 0 /\ Head(str) = "0" THEN LStripZeros(Tail(str)) ELSE str

RECURSIVE RStripZeros(_)
RStripZeros(str) ==
  IF Len(str) > 0 /\ SubSeq(str, Len(str), Len(str)) = "0"
  THEN RStripZeros(SubSeq(str, 1, Len(str) - 1)) ELSE str

\* the float a decimal literal denotes, written the way repr() writes it:
\* "1" and "01." are 1.0, "2.50" is 2.5, ".5" is 0.5
FloatValue(str) ==
  LET t == Strip(str)
      whole == LStripZeros(BeforeDot(t))
      frac == RStripZeros(AfterDot(t))
  IN (IF whole = "" THEN "0" ELSE whole) \o "." \o (IF frac = "" THEN "0" ELSE frac)

JFloat(x) == J("float", x)

\* NaN, the missing value of a float64 column
JNaN == J("nan", 0)

\* float(str): the float, or ValueError
float(str) ==
  IF IsFloatLiteral(str) THEN Returned(JFloat(FloatValue(str)))
  ELSE Raised("ValueError")

\* variant: repr(x) in place of str(x), a text comes out in quotes
PyRepr(j) ==
  CASE j.t \in {"null", "missing"} -> "None"
    [] j.t = "str" -> "'" \o j.v \o "'"
    [] j.t = "num" -> ToString(j.v)
    [] j.t = "float" -> j.v
    [] j.t = "nan" -> "nan"
    [] OTHER -> "{}"

\* str(x) / astype(str) of a value
PyStr(j) ==
  CASE j.t \in {"null", "missing"} -> "None"
    [] j.t = "str" -> j.v
    [] j.t = "num" -> ToString(j.v)
    [] j.t = "float" -> j.v
    [] j.t = "nan" -> "nan"
    [] OTHER -> "{}"

(* ------------------------------------------------------------------ *)
(* Per-record cleaning, enrichment and numeric sanitization            *)
(* ------------------------------------------------------------------ *)

\* nyc_realtor: float(rec["baths"].replace("+", "").strip())
\*              if rec.get("baths") else None
SanitizeBaths(baths) ==
  IF ~ Truthy(baths) THEN Returned(JNull)
  ELSE IF baths.t # "str" THEN Raised("AttributeError")
  ELSE float(Strip(Remove(baths.v, "+")))

\* nyc_redfin: str(rec["zip_code"])[:5].strip() if "zip_code" in rec else
\* None; parse_listing always sets the key
SanitizeZipValue(zip_code) == JStr(SanitizeZip(PyStr(zip_code)))

\* the body of "for item in data/results" after parse_listing, for a parsed
\* record r of a partition tagged borough
CleanRecordOf(s, r, borough) ==
  CASE s = "nyc_realtor" ->
         LET b == SanitizeBaths(r.baths) IN
         IF b.raised # None THEN b
         ELSE Returned([r EXCEPT !.baths = b.value] @@ [borough |-> JStr(borough)])
    [] s = "nyc_redfin" ->
         Returned([r EXCEPT !.zip_code = SanitizeZipValue(@)]
                  @@ [borough |-> JStr(borough)])
    [] OTHER -> Returned(r)

\* Series.map(BOS_ZIP_TO_NEIGHBORHOOD) for one value: the dict's entry for a
\* str that is a key, NaN for any other value
MapZipValue(zip_code) ==
  IF zip_code.t = "str" /\ MapNeighborhood(zip_code.v) # None
  THEN JStr(MapNeighborhood(zip_code.v))
  ELSE JNull

\* df["neighborhood"] = df["zip_code"].map(BOS_ZIP_TO_NEIGHBORHOOD), for one
\* row of the frame (Boston scripts)
EnrichRecordOf(s, r) ==
  IF IsBoston(s) THEN r @@ [neighborhood |-> MapZipValue(r.zip_code)] ELSE r

\* clean_numeric_column of bos_realtor_ingest.py for one value:
\* astype(str), str.extract(r'([\d\.]+)')[0] (NaN without a match),
\* astype(float)
clean_numeric_column(v) ==
  LET token == FirstNumericToken(PyStr(v)) IN
  IF token = "" THEN Returned(JNull) ELSE float(token)

\* master_df["beds"] and master_df["baths"] cleaned, for one row
CleanNumericOf(r) ==
  LET beds == clean_numeric_column(r.beds)
      baths == clean_numeric_column(r.baths)
  IN IF beds.raised # None THEN beds
     ELSE IF baths.raised # None THEN baths
     ELSE Returned([r EXCEPT !.beds = beds.value, !.baths = baths.value])

(* ------------------------------------------------------------------ *)
(* Retry policy of the fetchers                                        *)
(* ------------------------------------------------------------------ *)

\* variant: every fetcher retries 429 as well as 504
RetryableBoth(s, status) == status \in {429, 504}

\* variant: every HTTP error status is retried
RetryableAny(s, status) == TRUE

\* the statuses the HTTPError handler retries: 429 and 504 in
\* nyc_realtor_ingest.py, 504 alone in the three other scripts
Retryable(s, status) ==
  IF s = "nyc_realtor" THEN status \in {429, 504} ELSE status = 504

\* wait_time of the ReadTimeout handler
TimeoutWait(att) == BackoffFactor * att

\* variant: every fetcher waits backoff_factor * attempt on a retried status
HTTPWaitLenient(s, att) == BackoffFactor * att

\* wait_time of the HTTPError handler for a retried status
HTTPWait(s, att) ==
  IF s = "nyc_realtor" THEN Pow2(att) * 5 ELSE BackoffFactor * att

\* how an attempt ended: kind is "ok", "read_timeout", "http" (with the
\* status raise_for_status() rejected), "connect_timeout" or
\* "connection_error"; "none" before the first attempt of a call
Response(kind, status) == [kind |-> kind, status |-> status]
NoResponse == Response("none", 0)

\* variant: a call that gives up returns a page it had from before
AbortedRetStale == [results |-> RawPage("bos_realtor", 1, 1, 1), count |-> Num(0)]

\* "return []" / "return [], 0": what a fetcher returns when it gives up
\* (the Realtor fetchers return the list alone; count is then unused)
AbortedRet == [results |-> <<>>, count |-> Num(0)]

(* ------------------------------------------------------------------ *)
(* config.settings                                                     *)
(* ------------------------------------------------------------------ *)

\* an environment variable as os.getenv gives it: None when it is not set,
\* else its text, which may be empty
ApiKeys == {None, "", "k3y"}
DatabaseUrl == "postgresql+psycopg2://u:p@h:5432/d"
DatabaseUrls == {None, "", DatabaseUrl}
PartValues == {None, "", "x"}

\* settings = _Settings(): the fields the scripts read
Settings(key, url, parts) ==
  [ API_KEY |-> key, DATABASE_URL |-> url,
    DB_HOST |-> parts[1], DB_PORT |-> parts[2], DB_NAME |-> parts[3],
    DB_USER |-> parts[4], DB_PASSWORD |-> parts[5] ]

\* variant: `x is not None`, an empty text counts as set
IsSetWhenEmpty(x) == x # None

\* the truth value of an Optional[str]: `if x`, `not x`, all([...])
IsSet(x) == x # None /\ x # ""

\* variant: any([...]) in place of all([...])
get_sqlalchemy_url_any(st) ==
  IF IsSet(st.DATABASE_URL) THEN [raised |-> None, value |-> st.DATABASE_URL]
  ELSE IF \E x \in {st.DB_HOST, st.DB_PORT, st.DB_NAME, st.DB_USER, st.DB_PASSWORD} :
            IsSet(x)
  THEN [raised |-> None,
        value |-> "postgresql+psycopg2://" \o st.DB_USER \o ":" \o st.DB_PASSWORD
                    \o "@" \o st.DB_HOST \o ":" \o st.DB_PORT \o "/" \o st.DB_NAME]
  ELSE [raised |-> "RuntimeError: Database configuration is missing", value |-> ""]

\* _Settings.get_sqlalchemy_url: DATABASE_URL when it is set, else the URL
\* built from the five DB_* parts when all are set, else RuntimeError
get_sqlalchemy_url(st) ==
  IF IsSet(st.DATABASE_URL) THEN [raised |-> None, value |-> st.DATABASE_URL]
  ELSE IF \A x \in {st.DB_HOST, st.DB_PORT, st.DB_NAME, st.DB_USER, st.DB_PASSWORD} :
            IsSet(x)
  THEN [raised |-> None,
        value |-> "postgresql+psycopg2://" \o st.DB_USER \o ":" \o st.DB_PASSWORD
                    \o "@" \o st.DB_HOST \o ":" \o st.DB_PORT \o "/" \o st.DB_NAME]
  ELSE [raised |-> "RuntimeError: Database configuration is missing", value |-> ""]

\* the settings of a run that has its API key and a DATABASE_URL
Configured == Settings("k3y", DatabaseUrl, [i \in 1..5 |-> None])

(* ------------------------------------------------------------------ *)
(* Initial state                                                       *)
(* ------------------------------------------------------------------ *)

\* rows a previous run left in the destination table
OldRow(k) == [listing_id |-> JStr(ToString(k)), price |-> JNum(900),
              zip_code |-> "", z |-> 0, p |-> 0, i |-> k, region |-> None]
PriorRows == <<OldRow(1), OldRow(2)>>

\* no single record is followed
NoRecord ==
  /\ rawItem = JNull
  /\ record = Returned(JNull)

\* the script was started by hand, not by the master pipeline
NoPipeline ==
  /\ ppc = "none"
  /\ step = 0
  /\ stmt = 0
  /\ sqlFiles = <<>>
  /\ started = <<>>
  /\ committed = <<>>
  /\ pipe_err = None
  /\ status_calls = <<>>
  /\ status_rows = <<>>
  /\ exit_code = NoneNum

\* the locals of the fetcher at the start of a call
FetchEntry ==
  /\ attempt = 1
  /\ nReq = 0
  /\ wait_time = 0
  /\ nWaits = 0
  /\ outcome = NoResponse

Init ==
  /\ source \in Sources
  /\ \E key \in ApiKeys, url \in {None, DatabaseUrl} :
       settings = Settings(key, url, [i \in 1..5 |-> None])
  /\ pc = "import"
  /\ err = None
  /\ zipIdx = 1
  /\ page = 1
  /\ total_count = NoneNum
  /\ listings = <<>>
  /\ ret = AbortedRet
  /\ FetchEntry
  /\ master_df = <<>>
  /\ table = PriorRows
  /\ prior = table
  /\ served = <<>>
  /\ servedRun = <<>>
  /\ declared = NoneNum
  /\ NoRecord
  /\ NoPipeline

(* ------------------------------------------------------------------ *)
(* Module import: the API key check                                    *)
(* ------------------------------------------------------------------ *)

\* a raised, uncaught exception ends the run
Raise(e) == pc' = "failed" /\ err' = e

\* API_KEY = settings.API_KEY; if not API_KEY: raise RuntimeError
ImportModule ==
  /\ pc = "import"
  /\ IF IsSet(settings.API_KEY)
     THEN pc' = "main" /\ err' = err
     ELSE Raise("RuntimeError: Missing API_KEY")
  /\ UNCHANGED <<env, pipeVars, recordVars, zipIdx, zipLocals, fetchLocals, master_df, table, sent>>

(* ------------------------------------------------------------------ *)
(* fetch_and_clean_zip: entry                                          *)
(* ------------------------------------------------------------------ *)

\* the call of a fetcher for (zipcode, page): attempt = 1 of the for loop
CallFetch ==
  /\ attempt' = 1
  /\ nReq' = 0
  /\ wait_time' = 0
  /\ nWaits' = 0
  /\ outcome' = NoResponse

\* variant: page is a global that a new call does not reset
FreshLocalsKeepPage ==
  /\ listings' = <<>>
  /\ page' = page
  /\ total_count' = NoneNum
  /\ ret' = AbortedRet
  /\ CallFetch

\* the locals of fetch_and_clean_zip and of the fetcher, as a call finds them
FreshLocals ==
  /\ listings' = <<>>
  /\ page' = 1
  /\ total_count' = NoneNum
  /\ ret' = AbortedRet
  /\ CallFetch

\* the main loop takes the next ZIP and calls fetch_and_clean_zip, which
\* starts at page 1 with no listings and asks for the first page
StartZip ==
  /\ pc = "main"
  /\ zipIdx <= Len(Partitions(source))
  /\ FreshLocals
  /\ pc' = "request"
  /\ UNCHANGED <<env, pipeVars, recordVars, err, zipIdx, master_df, table, sent>>

(* ------------------------------------------------------------------ *)
(* fetch_realtor_listings / fetch_redfin_listings: one attempt         *)
(* ------------------------------------------------------------------ *)

\* variant: range(1, max_retries + 2), one attempt too many
InAttemptOffByOne == pc = "request" /\ attempt <= MaxRetries(source) + 1

\* the for loop is inside its range: requests.get is issued
InAttempt == pc = "request" /\ attempt <= MaxRetries(source)

\* variant: the wait is slept twice
SleepTwiceAndRetry(w) ==
  /\ wait_time' = w
  /\ nWaits' = nWaits + 2
  /\ attempt' = attempt + 1
  /\ UNCHANGED <<pc, ret>>

\* variant: no sleep after the last attempt
SleepUnlessLast(w) ==
  /\ wait_time' = w
  /\ nWaits' = IF attempt < MaxRetries(source) THEN nWaits + 1 ELSE nWaits
  /\ attempt' = attempt + 1
  /\ UNCHANGED <<pc, ret>>

\* time.sleep(wait_time), then the next iteration of the for loop
SleepAndRetry(w) ==
  /\ wait_time' = w
  /\ nWaits' = nWaits + 1
  /\ attempt' = attempt + 1
  /\ UNCHANGED <<pc, ret>>

\* "return []" / "return [], 0" without sleeping
ReturnAborted ==
  /\ ret' = AbortedRet
  /\ pc' = "fetched"
  /\ UNCHANGED <<wait_time, nWaits, attempt>>

\* the first count a partition's fetcher calls return
FirstDeclared(count) == IF page = 1 THEN count ELSE declared

\* variant: total_count = count on every page
LatestCount(tc, count) == count

\* the value of total_count after "if total_count is None: total_count = count"
FirstCount(tc, count) == IF tc.none THEN count ELSE tc

\* The upstream is finite: from page MaxPages on it returns no page that
\* makes the paginator ask for another one.
UpstreamServes(n, count) ==
  /\ n \in (IF IsRealtor(source) THEN RealtorPageSizes ELSE RedfinPageSizes)
  /\ count \in (IF IsRealtor(source) THEN {Num(0)} ELSE DeclaredTotals)
  /\ page >= MaxPages =>
       IF IsRealtor(source)
       THEN n < Limit
       ELSE \/ n = 0
            \/ FirstCount(total_count, count).none
            \/ Len(listings) + n >= FirstCount(total_count, count).v

\* response.raise_for_status() passes and response.json() is read:
\* return json_data.get("properties", []) or
\* return json_data.get("data", []), json_data.get("totalResultCount", 0)
RequestSuccess ==
  /\ InAttempt
  /\ \E n \in RealtorPageSizes \cup RedfinPageSizes, count \in DeclaredTotals :
       /\ UpstreamServes(n, count)
       /\ ret' = [results |-> RawPage(source, zipIdx, page, n), count |-> count]
       /\ served' = IF n > 0 THEN Append(served, n) ELSE served
       /\ declared' = FirstDeclared(count)
  /\ nReq' = nReq + 1
  /\ outcome' = Response("ok", 200)
  /\ pc' = "fetched"
  /\ UNCHANGED <<env, pipeVars, recordVars, err, zipIdx, page, total_count, listings, attempt,
                 wait_time, nWaits, master_df, table, servedRun>>

\* except requests.exceptions.ReadTimeout: sleep backoff_factor * attempt,
\* then the next iteration of the for loop
RequestReadTimeout ==
  /\ InAttempt
  /\ nReq' = nReq + 1
  /\ outcome' = Response("read_timeout", 0)
  /\ SleepAndRetry(TimeoutWait(attempt))
  /\ UNCHANGED <<env, pipeVars, recordVars, err, zipIdx, page, total_count, listings, master_df,
                 table, sent>>

\* except requests.exceptions.HTTPError: a retried status sleeps and
\* continues; any other status returns the empty result at once
RequestHTTPError ==
  /\ InAttempt
  /\ \E status \in ErrorStatuses :
       /\ outcome' = Response("http", status)
       /\ IF Retryable(source, status)
          THEN SleepAndRetry(HTTPWait(source, attempt)) /\ declared' = declared
          ELSE ReturnAborted /\ declared' = FirstDeclared(Num(0))
  /\ nReq' = nReq + 1
  /\ UNCHANGED <<env, pipeVars, recordVars, err, zipIdx, page, total_count, listings, master_df,
                 table, served, servedRun>>

\* the RequestException subclasses that are neither ReadTimeout nor HTTPError
TransportErrors == {"connect_timeout", "connection_error"}

\* except requests.exceptions.RequestException: return the empty result
RequestException ==
  /\ InAttempt
  /\ \E e \in TransportErrors : outcome' = Response(e, 0)
  /\ nReq' = nReq + 1
  /\ ReturnAborted
  /\ declared' = FirstDeclared(Num(0))
  /\ UNCHANGED <<env, pipeVars, recordVars, err, zipIdx, page, total_count, listings, master_df,
                 table, served, servedRun>>

\* the for loop ran out: "Max retries exceeded", return the empty result
MaxRetriesExceeded ==
  /\ pc = "request"
  /\ attempt > MaxRetries(source)
  /\ ReturnAborted
  /\ declared' = FirstDeclared(Num(0))
  /\ UNCHANGED <<env, pipeVars, recordVars, err, zipIdx, page, total_count, listings, nReq, outcome,
                 master_df, table, served, servedRun>>

(* ------------------------------------------------------------------ *)
(* fetch_and_clean_zip: the pagination loop                            *)
(* ------------------------------------------------------------------ *)

\* variant: page += 2, a page is skipped
NextPageSkipping ==
  /\ page' = page + 2
  /\ CallFetch
  /\ pc' = "request"
  /\ err' = err

\* page += 1 and the next iteration of the while loop calls the fetcher
NextPage ==
  /\ page' = page + 1
  /\ CallFetch
  /\ pc' = "request"
  /\ err' = err

\* the while loop is left: break
Break ==
  /\ pc' = "zipdone"
  /\ err' = err
  /\ UNCHANGED <<page, fetchLocals>>

\* variant: listings is rebuilt from the page instead of extended
AccumulateOverwrite(s, ls, data, borough) == CleanPage(s, data, borough)

\* variant: the short-page test comes before the append, the last page is lost
AccumulateFullPages(s, ls, data, borough) ==
  IF Len(data) < Limit THEN ls ELSE ls \o CleanPage(s, data, borough)

\* for item in data: listings.append(<the cleaned item>)
Accumulate(s, ls, data, borough) == ls \o CleanPage(s, data, borough)

\* variant: if len(data) <= 200: break
ShortPageInclusive(data) == Len(data) <= Limit

\* if len(data) < 200: break
ShortPage(data) == Len(data) < Limit

\* variant: if len(listings) > total_count: break
TotalExceeded(ls, tc) == Len(ls) > tc.v

\* if len(listings) >= total_count: break
TotalReached(ls, tc) == Len(ls) >= tc.v

\* Realtor scripts, after the fetcher returned data: stop on an empty
\* result; else append the cleaned items, stop after a page shorter than the
\* limit, else go on with the next page
PaginateShortPage ==
  /\ pc = "fetched"
  /\ IsRealtor(source)
  /\ IF ret.results = <<>>
     THEN Break /\ UNCHANGED listings
     ELSE /\ listings' = Accumulate(source, listings, ret.results,
                                    Partitions(source)[zipIdx].region)
          /\ IF ShortPage(ret.results) THEN Break ELSE NextPage
  /\ UNCHANGED <<env, pipeVars, recordVars, zipIdx, total_count, ret, master_df, table, sent>>

\* Redfin scripts, after the fetcher returned (results, count): the first
\* count becomes total_count; stop on an empty result; else append the
\* cleaned items, stop once len(listings) >= total_count (a TypeError when
\* total_count is None), else go on with the next page
PaginateDeclaredTotal ==
  /\ pc = "fetched"
  /\ IsRedfin(source)
  /\ total_count' = FirstCount(total_count, ret.count)
  /\ IF ret.results = <<>>
     THEN Break /\ UNCHANGED listings
     ELSE /\ listings' = Accumulate(source, listings, ret.results,
                                    Partitions(source)[zipIdx].region)
          /\ IF total_count'.none
             THEN /\ Raise("TypeError: '>=' not supported between int and NoneType")
                  /\ UNCHANGED <<page, fetchLocals>>
             ELSE IF TotalReached(listings', total_count') THEN Break ELSE NextPage
  /\ UNCHANGED <<env, pipeVars, recordVars, zipIdx, ret, master_df, table, sent>>

\* what fetch_and_clean_zip does with the listings after the loop:
\*   bos_realtor: DataFrame(listings), then df["list_date"] (a KeyError on a
\*                frame without columns), then the neighborhood;
\*   nyc_realtor: an empty frame when there are no listings, else the frame;
\*   bos_redfin:  the empty frame as it is, else the neighborhood is added;
\*   nyc_redfin:  the frame.
FrameRaises(s, rows) == s = "bos_realtor" /\ rows = <<>>

\* the dtype pandas gives the listing_id column of these rows: int64 when
\* all values are integers, float64 when all are numbers or missing and a
\* number is among them, else object
InferDtype(rows) ==
  IF \A k \in 1..Len(rows) : rows[k].listing_id.t = "num" THEN "int64"
  ELSE IF /\ \A k \in 1..Len(rows) :
               rows[k].listing_id.t \in {"num", "float", "nan", "null"}
          /\ \E k \in 1..Len(rows) : rows[k].listing_id.t \in {"num", "float"}
  THEN "float64"
  ELSE "object"

\* a value as a float64 column holds it: an integer as a float, a missing
\* value as NaN
AsFloat64(v) ==
  CASE v.t = "num" -> JFloat(ToString(v.v) \o ".0")
    [] v.t \in {"null", "nan"} -> JNaN
    [] OTHER -> v

\* the listing_id column of a frame under the dtype pandas infers for it:
\* the values of an int64 or object column are kept, those of a float64
\* column become floats and NaN
IdColumn(rows) ==
  IF InferDtype(rows) = "float64"
  THEN [k \in 1..Len(rows) |-> [rows[k] EXCEPT !.listing_id = AsFloat64(@)]]
  ELSE rows

\* pd.DataFrame(listings)
DataFrame(rows) == IdColumn(rows)

\* pd.concat([master_df, df_zip], ignore_index=True): the rows of both in
\* order, the column under the common dtype of the two (a frame whose ids are
\* all missing does not count for it)
concat(master, df) == IdColumn(master \o df)

Frame(s, rows) == IF IsBoston(s) THEN Enrich(DataFrame(rows)) ELSE DataFrame(rows)

\* variant: the main block is entered after every partition
AfterPartitionLoadsAtOnce(s, zi) == "aggregate"

\* for zip_code in ...: the loop goes on with the next partition, and after
\* the last one the main block follows
AfterPartition(s, zi) == IF zi = Len(Partitions(s)) THEN "aggregate" ELSE "main"

\* fetch_and_clean_zip returns (its locals are gone) and the main loop
\* concatenates the frame:
\* master_df = pd.concat([master_df, df_zip], ignore_index=True)
ReturnZip ==
  /\ pc = "zipdone"
  /\ IF FrameRaises(source, listings)
     THEN /\ Raise("KeyError: 'list_date'")
          /\ UNCHANGED <<master_df, zipIdx, zipLocals, fetchLocals, sent>>
     ELSE /\ master_df' = concat(master_df, Frame(source, listings))
          /\ zipIdx' = zipIdx + 1
          /\ pc' = AfterPartition(source, zipIdx)
          /\ err' = err
          /\ FreshLocals
          /\ served' = <<>>
          /\ servedRun' = Append(servedRun, served)
          /\ declared' = NoneNum
  /\ UNCHANGED <<env, pipeVars, recordVars, table>>

(* ------------------------------------------------------------------ *)
(* Main block: aggregation                                             *)
(* ------------------------------------------------------------------ *)

\* master_df["listing_id"].astype(str)
IdsAsStr(rows) ==
  [k \in 1..Len(rows) |-> [rows[k] EXCEPT !.listing_id = JStr(PyStr(@))]]

\* drop_duplicates over the rows lo..hi, whose listing_ids are strings, given
\* the set of listing_ids seen before lo: the rows kept, in order, and the
\* ids seen up to hi
RECURSIVE KeepFirst(_, _, _, _)
KeepFirst(rows, lo, hi, seen) ==
  IF lo > hi THEN [kept |-> <<>>, seen |-> seen]
  ELSE IF lo = hi
  THEN IF rows[lo].listing_id.v \in seen
       THEN [kept |-> <<>>, seen |-> seen]
       ELSE [kept |-> <<rows[lo]>>, seen |-> seen \cup {rows[lo].listing_id.v}]
  ELSE LET mid == (lo + hi) \div 2
           left == KeepFirst(rows, lo, mid, seen)
           right == KeepFirst(rows, mid + 1, hi, left.seen)
       IN [kept |-> left.kept \o right.kept, seen |-> right.seen]

\* variant with keep="last": of the rows with one listing_id the last one is
\* kept
drop_duplicates_keep_last(rows) ==
  LET kept == {k \in 1..Len(rows) :
                 \A j \in (k + 1)..Len(rows) :
                   rows[j].listing_id.v # rows[k].listing_id.v}
      RECURSIVE Pick(_)
      Pick(k) == IF k > Len(rows) THEN <<>>
                 ELSE (IF k \in kept THEN <<rows[k]>> ELSE <<>>) \o Pick(k + 1)
  IN Pick(1)

\* master_df.drop_duplicates(subset="listing_id", keep="first")
drop_duplicates(rows) == KeepFirst(rows, 1, Len(rows), {}).kept

\* the integer a run of digits denotes
RECURSIVE IntOf(_)
IntOf(str) ==
  IF Len(str) = 0 THEN 0
  ELSE 10 * IntOf(SubSeq(str, 1, Len(str) - 1))
       + (CHOOSE d \in 0..9 : ToString(d) = SubSeq(str, Len(str), Len(str)))

\* Series.astype(dtype) of one value. A missing value stays missing; "string"
\* takes the str() of any value; "Int32" takes an integer and a float without
\* a fraction, and raises on a float with a fraction and on a text.
CastValue(v, dtype) ==
  CASE v.t \in {"null", "missing", "nan"} -> Returned(JNull)
    [] v.t \notin {"null", "missing", "nan"} /\ dtype = "string" ->
         Returned(JStr(PyStr(v)))
    [] dtype = "Int32" /\ v.t = "num" -> Returned(v)
    [] dtype = "Int32" /\ v.t = "float" ->
         IF RStripZeros(AfterDot(v.v)) = ""
         THEN Returned(JNum(IntOf(BeforeDot(v.v))))
         ELSE Raised("TypeError")
    [] OTHER -> Raised("TypeError")

\* variant with errors="coerce": a value that cannot be cast becomes missing
AstypeColumnCoerce(rows, col, dtype) ==
  LET cast == [k \in 1..Len(rows) |-> CastValue(rows[k][col], dtype)]
  IN [k \in 1..Len(rows) |->
        [rows[k] EXCEPT ![col] = IF cast[k].raised = None THEN cast[k].value
                                 ELSE JNull]]

\* astype({col: dtype}, errors="ignore") for one column: the column is cast
\* when every value of it can be, and left as it is when a value raises
AstypeColumn(rows, col, dtype) ==
  LET cast == [k \in 1..Len(rows) |-> CastValue(rows[k][col], dtype)]
  IN IF \A k \in 1..Len(rows) : cast[k].raised = None
     THEN [k \in 1..Len(rows) |-> [rows[k] EXCEPT ![col] = cast[k].value]]
     ELSE rows

\* master_df.astype({...}, errors="ignore"), for the columns whose values the
\* model carries: listing_id as "string", the price as "Int32"
astype(rows) ==
  AstypeColumn(AstypeColumn(rows, "listing_id", "string"), "price", "Int32")

\* the aggregation steps of the main block on a frame that has rows
aggregate(rows) == astype(drop_duplicates(IdsAsStr(rows)))

\* variant: a frame without rows passes the aggregation steps unchanged
AggregateEmptyPasses ==
  /\ pc = "aggregate"
  /\ master_df' = IF master_df = <<>> THEN <<>> ELSE aggregate(master_df)
  /\ pc' = "engine"
  /\ err' = err
  /\ UNCHANGED <<env, pipeVars, recordVars, zipIdx, zipLocals, fetchLocals, table, sent>>

\* the main block after the partition loop: master_df["listing_id"] is a
\* KeyError on the frame without columns that a run without listings builds;
\* else the ids become strings, duplicates are dropped and the columns are
\* cast to their types
Aggregate ==
  /\ pc = "aggregate"
  /\ IF master_df = <<>>
     THEN Raise("KeyError: 'listing_id'") /\ UNCHANGED master_df
     ELSE /\ master_df' = aggregate(master_df)
          /\ pc' = "engine"
          /\ err' = err
  /\ UNCHANGED <<env, pipeVars, recordVars, zipIdx, zipLocals, fetchLocals, table, sent>>

(* ------------------------------------------------------------------ *)
(* Main block: PostgreSQL load                                         *)
(* ------------------------------------------------------------------ *)

\* engine = create_engine(settings.get_sqlalchemy_url()): get_sqlalchemy_url
\* raises RuntimeError when neither DATABASE_URL nor the DB_* parts are set
CreateEngine ==
  /\ pc = "engine"
  /\ LET url == get_sqlalchemy_url(settings)
     IN IF url.raised = None
        THEN pc' = "truncate" /\ err' = err
        ELSE Raise(url.raised)
  /\ UNCHANGED <<env, pipeVars, recordVars, zipIdx, zipLocals, fetchLocals, master_df, table, sent>>

\* variant: the block commits without having removed a row
TruncateKeepsRows ==
  /\ pc = "truncate"
  /\ table' = table
  /\ pc' = "insert"
  /\ UNCHANGED <<env, pipeVars, recordVars, err, zipIdx, zipLocals, fetchLocals, master_df, sent>>

\* with engine.begin() as conn: conn.execute(TRUNCATE ...): the block's own
\* transaction, committed when the block is left
TruncateCommit ==
  /\ pc = "truncate"
  /\ table' = <<>>
  /\ pc' = "insert"
  /\ UNCHANGED <<env, pipeVars, recordVars, err, zipIdx, zipLocals, fetchLocals, master_df, sent>>

\* the connection or the TRUNCATE statement fails: the block rolls back and
\* the error leaves the script
TruncateFails ==
  /\ pc = "truncate"
  /\ Raise("OperationalError: truncate")
  /\ UNCHANGED <<env, pipeVars, recordVars, zipIdx, zipLocals, fetchLocals, master_df, table, sent>>

\* master_df.to_sql(..., if_exists="append"): the rows are appended to the
\* table in to_sql's own transaction
InsertCommit ==
  /\ pc = "insert"
  /\ table' = table \o master_df
  /\ pc' = "done"
  /\ UNCHANGED <<env, pipeVars, recordVars, err, zipIdx, zipLocals, fetchLocals, master_df, sent>>

\* to_sql fails: its transaction rolls back, nothing of master_df is
\* inserted, and the error leaves the script
InsertFails ==
  /\ pc = "insert"
  /\ Raise("OperationalError: insert")
  /\ UNCHANGED <<env, pipeVars, recordVars, zipIdx, zipLocals, fetchLocals, master_df, table, sent>>

(* ------------------------------------------------------------------ *)
(* Raw records the upstream may return                                 *)
(* ------------------------------------------------------------------ *)

\* The choices below are sequences: a record is drawn by the positions of
\* its parts.

\* values of a free-text number (description.baths_consolidated)
BathTexts ==
  << JMissing, JNull, JStr(""), JStr("1+"), JStr("2.5 ba"), JStr("1.5"),
     JStr("studio"), JStr("1.2.3"), JNum(2) >>

\* values of a postal code: absent, null, mapped, unmapped, ZIP+4, padded,
\* a number
PostalCodes ==
  << JMissing, JNull, JStr("02116"), JStr("99999"), JStr("02116-1234"),
     JStr(" 0211"), JNum(2116) >>

\* values of the path fragment of the listing's page (permalink / url)
Fragments == << JMissing, JNull, JStr(""), JStr("/MA/Boston/1-Main-St") >>

\* the sequence of f(a, b) for a in as and b in bs
Product(f(_, _), as, bs) ==
  [k \in 1..(Len(as) * Len(bs)) |->
     f(as[((k - 1) \div Len(bs)) + 1], bs[((k - 1) % Len(bs)) + 1])]

Coordinate == JObj([lat |-> JNum(42), lon |-> JNum(-71)])

Address(postal_code, coordinate) ==
  JObj([postal_code |-> postal_code, line |-> JStr("1 Main St"),
        coordinate |-> coordinate])

\* the "address" of a location: absent, or a dict
Addresses ==
  <<JMissing>> \o Product(Address, PostalCodes, <<JMissing, Coordinate>>)

Description(baths) ==
  JObj([beds |-> JNum(2), baths_consolidated |-> baths, sqft |-> JNum(700)])

\* the "description" of a Realtor item: absent, null, a text, a dict
Descriptions ==
  <<JMissing, JNull, JStr("n/a")>>
  \o [k \in 1..Len(BathTexts) |-> Description(BathTexts[k])]

\* the "location" of a Realtor item: absent, null, a text, a dict
Locations ==
  <<JMissing, JNull, JStr("Boston")>>
  \o [k \in 1..Len(Addresses) |-> JObj([address |-> Addresses[k]])]

PetPolicies == <<JMissing, JObj([cats |-> JNum(1), dogs |-> JMissing])>>

RealtorItem(description, location, permalink, pet_policy) ==
  JObj([listing_id |-> JNum(7), list_price |-> JNum(2500),
        description |-> description, list_date |-> JStr("2024-05-01"),
        location |-> location, permalink |-> permalink,
        pet_policy |-> pet_policy])

Range == JObj([min |-> JNum(1), max |-> JNum(2)])

Centroid == JObj([centroid |-> JObj([latitude |-> JNum(42), longitude |-> JNum(-71)])])

AddressInfo(zip, centroid) ==
  JObj([zip |-> zip, formattedStreetLine |-> JStr("1 Main St"),
        centroid |-> centroid])

HomeData(addressInfo, url) == JObj([addressInfo |-> addressInfo, url |-> url])

\* the "homeData" of a Redfin item: absent, null, a text, a dict
HomeDatas ==
  <<JMissing, JNull, JStr("n/a")>>
  \o Product(HomeData,
             <<JMissing>> \o Product(AddressInfo, PostalCodes, <<JMissing, Centroid>>),
             Fragments)

RentalExtension(rentPriceRange) ==
  JObj([rentalId |-> JNum(7), rentPriceRange |-> rentPriceRange,
        bedRange |-> Range, bathRange |-> Range, sqftRange |-> JMissing])

\* the "rentalExtension" of a Redfin item: absent, null, or a dict whose
\* rentPriceRange is absent, null or a dict
RentalExtensions ==
  <<JMissing, JNull, RentalExtension(JMissing), RentalExtension(JNull),
    RentalExtension(Range)>>

RedfinItem(homeData, rentalExtension) ==
  JObj([homeData |-> homeData, rentalExtension |-> rentalExtension])

\* rawItem is one of the raw records script s may receive
IsRawItem(s, raw) ==
  IF IsRealtor(s)
  THEN \E d \in 1..Len(Descriptions), l \in 1..Len(Locations),
          f \in 1..Len(Fragments), pp \in 1..Len(PetPolicies) :
         raw = RealtorItem(Descriptions[d], Locations[l], Fragments[f],
                           PetPolicies[pp])
  ELSE \E h \in 1..Len(HomeDatas), x \in 1..Len(RentalExtensions) :
         raw = RedfinItem(HomeDatas[h], RentalExtensions[x])

(* ------------------------------------------------------------------ *)
(* One record, from the response to the row of master_df               *)
(* ------------------------------------------------------------------ *)

\* the step ends with what the call returned, or with its exception
RecordBecomes(result, next) ==
  /\ record' = result
  /\ IF result.raised # None
     THEN Raise(result.raised)
     ELSE pc' = next /\ err' = err
  /\ UNCHANGED <<env, pipeVars, zipIdx, zipLocals, fetchLocals, master_df, table, sent,
                 rawItem>>

\* rec = parse_listing(item)
ParseListing ==
  /\ pc = "parse"
  /\ RecordBecomes(IF IsRealtor(source) THEN realtor_parse_listing(rawItem)
                                        ELSE redfin_parse_listing(rawItem),
                   "clean")

\* the rest of the loop body: the sanitization and the borough tag of the
\* NYC scripts
CleanRecord ==
  /\ pc = "clean"
  /\ RecordBecomes(CleanRecordOf(source, record.value,
                                 Partitions(source)[zipIdx].region),
                   "enrich")

\* the frame after the loop: the neighborhood of the Boston scripts
EnrichRecord ==
  /\ pc = "enrich"
  /\ RecordBecomes(Returned(EnrichRecordOf(source, record.value)),
                   IF source = "bos_realtor" THEN "numeric" ELSE "row")

\* bos_realtor main block: clean_numeric_column on beds and baths
CleanNumeric ==
  /\ pc = "numeric"
  /\ RecordBecomes(CleanNumericOf(record.value), "row")

RecordStep ==
  \/ ParseListing
  \/ CleanRecord
  \/ EnrichRecord
  \/ CleanNumeric

(* ------------------------------------------------------------------ *)
(* Specifications                                                      *)
(* ------------------------------------------------------------------ *)

\* one request attempt of a fetcher, or its giving up
FetchStep ==
  \/ RequestSuccess
  \/ RequestReadTimeout
  \/ RequestHTTPError
  \/ RequestException
  \/ MaxRetriesExceeded

Next ==
  \/ ImportModule
  \/ StartZip
  \/ RequestSuccess
  \/ RequestReadTimeout
  \/ RequestHTTPError
  \/ RequestException
  \/ MaxRetriesExceeded
  \/ PaginateShortPage
  \/ PaginateDeclaredTotal
  \/ ReturnZip
  \/ Aggregate
  \/ CreateEngine
  \/ TruncateCommit
  \/ TruncateFails
  \/ InsertCommit
  \/ InsertFails

\* a run of one ingestion script
Spec == Init /\ [][Next]_vars

\* one call of a fetcher, for any script, partition and page: the state
\* fetch_and_clean_zip calls it in
InitFetch ==
  /\ source \in Sources
  /\ settings = Configured
  /\ pc = "request"
  /\ err = None
  /\ zipIdx \in 1..NumZips
  /\ page \in 1..MaxPages
  /\ total_count = NoneNum
  /\ listings = <<>>
  /\ ret = AbortedRet
  /\ FetchEntry
  /\ master_df = <<>>
  /\ table = PriorRows
  /\ prior = table
  /\ served = <<>>
  /\ servedRun = <<>>
  /\ declared = NoneNum
  /\ NoRecord
  /\ NoPipeline

SpecFetch == InitFetch /\ [][FetchStep]_vars

\* one raw record of one response of one partition, for any script
InitRecord ==
  /\ source \in Sources
  /\ settings = Configured
  /\ pc = "parse"
  /\ err = None
  /\ zipIdx \in 1..NumZips
  /\ page = 1
  /\ total_count = NoneNum
  /\ listings = <<>>
  /\ ret = AbortedRet
  /\ FetchEntry
  /\ master_df = <<>>
  /\ table = PriorRows
  /\ prior = table
  /\ served = <<>>
  /\ servedRun = <<>>
  /\ declared = NoneNum
  /\ IsRawItem(source, rawItem)
  /\ record = Returned(JNull)
  /\ NoPipeline

SpecRecord == InitRecord /\ [][RecordStep]_vars

\* listing ids the upstream may return: texts, a number and the text of that
\* number, a missing id and the text a missing id is written as
IdChoices == << JStr("A"), JStr("B"), JNum(100), JStr("100"), JNull >>

\* prices of the k-th record: an integer or a float, the float of the second
\* record with a fraction and the others without
PriceChoices(k) ==
  << JNum(100 * k),
     IF k = 2 THEN JFloat("250.5") ELSE JFloat(ToString(100 * k + 50) \o ".0") >>

\* the k-th row of the concatenated frames: a record of partition
\* min(k, NumZips) as fetch_and_clean_zip returns it
FetchedRow(s, k, id, price) ==
  LET z == Min(k, NumZips)
      row == Frame(s, CleanPage(s, RawPage(s, z, 1, 2), Partitions(s)[z].region))[2]
  IN [row EXCEPT !.listing_id = id, !.price = price, !.i = k]

\* the frames of the partitions 1..z, concatenated by the partition loop;
\* rows are the records fetched, each with its partition in z
RECURSIVE ConcatPartitions(_, _)
ConcatPartitions(rows, z) ==
  IF z = 0 THEN <<>>
  ELSE concat(ConcatPartitions(rows, z - 1),
              DataFrame(SelectSeq(rows, LAMBDA r : r.z = z)))

\* master_df after the partition loop: the concatenated frames of the
\* partitions, every partition with a row where the script needs one
IsMasterFrame(s, df) ==
  \E n \in (IF FrameRaises(s, <<>>) THEN NumZips ELSE 1)..MaxRows :
    \E ids \in [1..n -> 1..Len(IdChoices)] :
      \E prices \in [1..n -> 1..Len(PriceChoices(1))] :
        df = ConcatPartitions(
               [k \in 1..n |->
                  FetchedRow(s, k, IdChoices[ids[k]], PriceChoices(k)[prices[k]])],
               NumZips)

\* the table as the run finds it: empty, holding rows of another dataset, or
\* holding what an earlier successful run on the same fetched rows loaded
IsPriorTable(rows, t) ==
  \/ t = <<>>
  \/ t = PriorRows
  \/ t = aggregate(rows)

\* the main block after the partition loop, for any script, any frame of
\* fetched rows and any prior contents of the table
InitAggregate ==
  /\ source \in Sources
  /\ settings = Configured
  /\ pc = "aggregate"
  /\ err = None
  /\ zipIdx = NumZips + 1
  /\ page = 1
  /\ total_count = NoneNum
  /\ listings = <<>>
  /\ ret = AbortedRet
  /\ FetchEntry
  /\ IsMasterFrame(source, master_df)
  /\ IsPriorTable(master_df, table)
  /\ prior = table
  /\ served = <<>>
  /\ servedRun = <<>>
  /\ declared = NoneNum
  /\ NoRecord
  /\ NoPipeline

MainBlockStep ==
  \/ Aggregate
  \/ CreateEngine
  \/ TruncateCommit
  \/ TruncateFails
  \/ InsertCommit
  \/ InsertFails

SpecAggregate == InitAggregate /\ [][MainBlockStep]_vars

\* most records of a run whose listing ids are followed
MaxIdRows == 4

\* listing ids as the upstream may return them: a text (here the text
\* "None"), a number, null
IdValues == << JStr("None"), JNum(7), JNull >>

\* the ways n records in fetch order fall to the partitions in their order
Splits(n) ==
  {f \in [1..n -> 1..NumZips] : \A k \in 1..(n - 1) : f[k] <= f[k + 1]}

\* the k-th record of a run, fetched for partition z, with its listing id
CollectedRow(s, z, k, id) ==
  LET row == CleanPage(s, RawPage(s, z, 1, 1), Partitions(s)[z].region)[1]
  IN [row EXCEPT !.listing_id = id, !.i = k]

\* the partition loop over the partitions 1..z: the frame of each is
\* concatenated to master_df
RECURSIVE ConcatFrames(_, _, _)
ConcatFrames(s, rows, z) ==
  IF z = 0 THEN <<>>
  ELSE concat(ConcatFrames(s, rows, z - 1),
              Frame(s, SelectSeq(rows, LAMBDA r : r.z = z)))

\* master_df after the partition loop for some records, ids and partitions;
\* a script that fails on a partition without listings has one in each
IsCollectedFrame(s, df) ==
  \E n \in 0..MaxIdRows :
    \E split \in Splits(n) :
      \E ids \in [1..n -> 1..Len(IdValues)] :
        /\ FrameRaises(s, <<>>) => \A z \in 1..NumZips : \E k \in 1..n : split[k] = z
        /\ df = ConcatFrames(s, [k \in 1..n |->
                                   CollectedRow(s, split[k], k, IdValues[ids[k]])],
                             NumZips)

\* the main block after the partition loop, for any script and any listing
\* ids of the records the partitions returned
InitIds ==
  /\ source \in Sources
  /\ settings = Configured
  /\ pc = "aggregate"
  /\ err = None
  /\ zipIdx = NumZips + 1
  /\ page = 1
  /\ total_count = NoneNum
  /\ listings = <<>>
  /\ ret = AbortedRet
  /\ FetchEntry
  /\ IsCollectedFrame(source, master_df)
  /\ table \in {<<>>, PriorRows}
  /\ prior = table
  /\ served = <<>>
  /\ servedRun = <<>>
  /\ declared = NoneNum
  /\ NoRecord
  /\ NoPipeline

SpecIds == InitIds /\ [][MainBlockStep]_vars

\* the frame of two fetched rows, aggregated
LoadedFrame(s) ==
  aggregate(<< FetchedRow(s, 1, IdChoices[1], PriceChoices(1)[1]),
               FetchedRow(s, 2, IdChoices[2], PriceChoices(2)[1]) >>)

\* the PostgreSQL load, for any script, any database configuration of the
\* environment and a table that is empty or holds rows
InitLoad ==
  /\ source \in Sources
  /\ \E url \in DatabaseUrls, parts \in [1..5 -> PartValues] :
       settings = Settings("k3y", url, parts)
  /\ pc = "engine"
  /\ err = None
  /\ zipIdx = NumZips + 1
  /\ page = 1
  /\ total_count = NoneNum
  /\ listings = <<>>
  /\ ret = AbortedRet
  /\ FetchEntry
  /\ master_df = LoadedFrame(source)
  /\ table \in {<<>>, PriorRows}
  /\ prior = table
  /\ served = <<>>
  /\ servedRun = <<>>
  /\ declared = NoneNum
  /\ NoRecord
  /\ NoPipeline

LoadStep ==
  \/ CreateEngine
  \/ TruncateCommit
  \/ TruncateFails
  \/ InsertCommit
  \/ InsertFails

SpecLoad == InitLoad /\ [][LoadStep]_vars

(* ------------------------------------------------------------------ *)
(* rental_pipeline.py: the master script                               *)
(* ------------------------------------------------------------------ *)

\* most statements of one SQL file
MaxStatements == 2

\* str.startswith(prefix)
StartsWith(str, prefix) ==
  Len(str) >= Len(prefix) /\ SubSeq(str, 1, Len(prefix)) = prefix

\* str[n:]
Drop(str, n) == SubSeq(str, n + 1, Len(str))

\* the longest prefix of str without the character c: [^c]*
RECURSIVE Until(_, _)
Until(str, c) ==
  IF Len(str) = 0 \/ Head(str) = c THEN ""
  ELSE SubSeq(str, 1, 1) \o Until(Tail(str), c)

\* re.match(r"postgresql\+psycopg2://([^:]+):([^@]+)@([^:]+):(\d+)/(\S+)", url):
\* whether it matches, and the port group
MatchDatabaseUrl(url) ==
  LET scheme == "postgresql+psycopg2://"
      r1 == Drop(url, Len(scheme))
      user == Until(r1, ":")
      r2 == Drop(r1, Len(user) + 1)
      pwd == Until(r2, "@")
      r3 == Drop(r2, Len(pwd) + 1)
      host == Until(r3, ":")
      r4 == Drop(r3, Len(host) + 1)
      port == Span(r4, Digits)
      r5 == Drop(r4, Len(port) + 1)
      db == Until(r5, " ")
  IN [ matched |-> /\ StartsWith(url, scheme)
                   /\ user # "" /\ Len(r1) > Len(user)
                   /\ pwd # "" /\ Len(r2) > Len(pwd)
                   /\ host # "" /\ Len(r3) > Len(host)
                   /\ port # "" /\ StartsWith(Drop(r4, Len(port)), "/")
                   /\ db # "",
       port |-> port ]

\* int(text) accepts the text: digits, blanks around them allowed
IsIntLiteral(str) == Strip(str) # "" /\ Span(Strip(str), Digits) = Strip(str)

\* _Settings.get_psycopg2_kwargs: the kwargs from the five DB_* parts when all
\* are set, else from a DATABASE_URL that starts with "postgresql" and has the
\* expected format, else RuntimeError; int(port) raises ValueError
get_psycopg2_kwargs(st) ==
  IF \A x \in {st.DB_HOST, st.DB_PORT, st.DB_NAME, st.DB_USER, st.DB_PASSWORD} :
       IsSet(x)
  THEN IF IsIntLiteral(st.DB_PORT)
       THEN [raised |-> None, port |-> IntOf(Strip(st.DB_PORT))]
       ELSE [raised |-> "ValueError", port |-> 0]
  ELSE IF IsSet(st.DATABASE_URL) /\ StartsWith(st.DATABASE_URL, "postgresql")
  THEN LET m == MatchDatabaseUrl(st.DATABASE_URL)
       IN IF m.matched THEN [raised |-> None, port |-> IntOf(m.port)]
          ELSE [raised |-> "RuntimeError: DATABASE_URL is set but not in expected format",
                port |-> 0]
  ELSE [raised |-> "RuntimeError: psycopg2 configuration is missing", port |-> 0]

\* the labels run_script is called with, in order
ScriptLabels ==
  << "Boston Realtor Ingest", "Boston Redfin Ingest",
     "NYC Realtor Ingest", "NYC Redfin Ingest" >>

\* the SQL files execute_sql is called with, in order
SqlFileNames == << "bos_rental_etl.sql", "nyc_rental_etl.sql" >>

\* the three cur.execute calls of the unified-table build
UnifiedStatements ==
  << "DROP, CREATE, TRUNCATE, INSERT analytics.listings",
     "ALTER TABLE analytics.listings", "UPDATE analytics.listings" >>

\* a statement of a SQL file as sqlparse.split returns it: a statement, or
\* text that is blank once stripped
StatementTexts == {"SELECT 1;", " "}

\* variant: the exception is logged where it is raised and the block goes on
PipeFailLogged(e) ==
  /\ pipe_err' = e
  /\ ppc' = ppc

\* the exception reaches `except Exception as e` of the main block
PipeFail(e) ==
  /\ pipe_err' = e
  /\ ppc' = "failure"

\* DB_CONFIG = settings.get_psycopg2_kwargs(), at module level: an error here
\* is not caught, the interpreter ends with status 1
PipeConfig ==
  /\ ppc = "config"
  /\ LET kw == get_psycopg2_kwargs(settings)
     IN IF kw.raised = None
        THEN /\ ppc' = "script"
             /\ step' = 1
             /\ UNCHANGED <<pipe_err, exit_code>>
        ELSE /\ ppc' = "exited"
             /\ pipe_err' = kw.raised
             /\ exit_code' = Num(1)
             /\ step' = step
  /\ UNCHANGED <<runVars, stmt, sqlFiles, started, committed, status_calls,
                 status_rows>>

\* run_script(label, command): subprocess.run(command, check=True) raises
\* CalledProcessError when the script's exit status is not 0; run_script logs
\* it and raises it again
PipeRunScript ==
  /\ ppc = "script"
  /\ started' = Append(started, ScriptLabels[step])
  /\ \E returncode \in {0, 1} :
       IF returncode = 0
       THEN /\ ppc' = IF step = Len(ScriptLabels) THEN "connect" ELSE "script"
            /\ step' = IF step = Len(ScriptLabels) THEN 1 ELSE step + 1
            /\ pipe_err' = pipe_err
       ELSE PipeFail("CalledProcessError") /\ step' = step
  /\ UNCHANGED <<runVars, stmt, sqlFiles, committed, status_calls, status_rows,
                 exit_code>>

\* conn = psycopg2.connect(**DB_CONFIG); conn.set_session(autocommit=True)
PipeConnect ==
  /\ ppc = "connect"
  /\ \/ ppc' = "sqlfile" /\ pipe_err' = pipe_err
     \/ PipeFail("OperationalError")
  /\ UNCHANGED <<runVars, step, stmt, sqlFiles, started, committed, status_calls,
                 status_rows, exit_code>>

\* execute_sql(sql_path, conn): the file is read and split; a file that
\* cannot be read raises
PipeOpenSql ==
  /\ ppc = "sqlfile"
  /\ started' = Append(started, SqlFileNames[step])
  /\ \/ ppc' = "statement" /\ stmt' = 1 /\ pipe_err' = pipe_err
     \/ PipeFail("FileNotFoundError") /\ stmt' = stmt
  /\ UNCHANGED <<runVars, step, sqlFiles, committed, status_calls, status_rows,
                 exit_code>>

\* variant: the statements of a file run in one transaction, an error rolls
\* back the whole file
PipeStatementOneTransaction ==
  /\ ppc = "statement"
  /\ IF stmt > Len(sqlFiles[step])
     THEN /\ ppc' = IF step = Len(SqlFileNames) THEN "unified" ELSE "sqlfile"
          /\ step' = IF step = Len(SqlFileNames) THEN 1 ELSE step + 1
          /\ stmt' = 1
          /\ UNCHANGED <<committed, pipe_err>>
     ELSE IF Strip(sqlFiles[step][stmt]) = ""
     THEN /\ stmt' = stmt + 1
          /\ UNCHANGED <<ppc, step, committed, pipe_err>>
     ELSE \/ /\ committed' = Append(committed, <<SqlFileNames[step], stmt>>)
             /\ stmt' = stmt + 1
             /\ UNCHANGED <<ppc, step, pipe_err>>
          \/ /\ PipeFail("ProgrammingError")
             /\ committed' = SelectSeq(committed,
                                       LAMBDA c : c[1] # SqlFileNames[step])
             /\ UNCHANGED <<step, stmt>>
  /\ UNCHANGED <<runVars, sqlFiles, started, status_calls, status_rows, exit_code>>

\* execute_sql: one turn of `for stmt in statements`. A blank statement is
\* skipped; else cursor.execute and conn.commit, or on an error
\* conn.rollback and the error raised again. After the last statement the
\* next file follows, then the unified-table build.
PipeStatement ==
  /\ ppc = "statement"
  /\ IF stmt > Len(sqlFiles[step])
     THEN /\ ppc' = IF step = Len(SqlFileNames) THEN "unified" ELSE "sqlfile"
          /\ step' = IF step = Len(SqlFileNames) THEN 1 ELSE step + 1
          /\ stmt' = 1
          /\ UNCHANGED <<committed, pipe_err>>
     ELSE IF Strip(sqlFiles[step][stmt]) = ""
     THEN /\ stmt' = stmt + 1
          /\ UNCHANGED <<ppc, step, committed, pipe_err>>
     ELSE \/ /\ committed' = Append(committed, <<SqlFileNames[step], stmt>>)
             /\ stmt' = stmt + 1
             /\ UNCHANGED <<ppc, step, pipe_err>>
          \/ /\ PipeFail("ProgrammingError")
             /\ UNCHANGED <<step, stmt, committed>>
  /\ UNCHANGED <<runVars, sqlFiles, started, status_calls, status_rows, exit_code>>

\* the unified-table build: three cur.execute calls on the autocommit
\* connection, conn.commit(), conn.close()
PipeUnified ==
  /\ ppc = "unified"
  /\ started' = IF stmt = 1 THEN Append(started, "unified listings table")
                ELSE started
  /\ \/ /\ committed' = Append(committed, <<"unified", stmt>>)
        /\ ppc' = IF stmt = Len(UnifiedStatements) THEN "success" ELSE "unified"
        /\ stmt' = IF stmt = Len(UnifiedStatements) THEN stmt ELSE stmt + 1
        /\ pipe_err' = pipe_err
     \/ /\ PipeFail("ProgrammingError")
        /\ UNCHANGED <<stmt, committed>>
  /\ UNCHANGED <<runVars, step, sqlFiles, status_calls, status_rows, exit_code>>

\* variant: an exception inside update_status is raised again; raised from
\* the last statement of the try block it reaches the except block, which
\* calls update_status("FAILURE", str(e))
update_status_reraise(status, details) ==
  \/ /\ status_calls' = Append(status_calls, [status |-> status, details |-> details])
     /\ status_rows' = Append(status_rows, [status |-> status, details |-> details])
  \/ /\ status_calls' =
          IF status = "SUCCESS"
          THEN status_calls \o << [status |-> status, details |-> details],
                                  [status |-> "FAILURE", details |-> "OperationalError"] >>
          ELSE Append(status_calls, [status |-> status, details |-> details])
     /\ status_rows' = status_rows

\* update_status(status, details): the status row is inserted and committed,
\* or an exception inside is logged and not raised
update_status(status, details) ==
  /\ status_calls' = Append(status_calls, [status |-> status, details |-> details])
  /\ \/ status_rows' = Append(status_rows, [status |-> status, details |-> details])
     \/ status_rows' = status_rows

\* update_status("SUCCESS", ...) as the last statement of the try block; the
\* script ends, the interpreter exits with status 0
PipeSuccess ==
  /\ ppc = "success"
  /\ update_status("SUCCESS", "Pipeline completed successfully.")
  /\ ppc' = "exited"
  /\ exit_code' = Num(0)
  /\ UNCHANGED <<runVars, step, stmt, sqlFiles, started, committed, pipe_err>>

\* except Exception as e: the traceback is logged and
\* update_status("FAILURE", str(e)) is called; the script ends after the
\* handler, the interpreter exits with status 0
PipeFailure ==
  /\ ppc = "failure"
  /\ update_status("FAILURE", pipe_err)
  /\ ppc' = "exited"
  /\ exit_code' = Num(0)
  /\ UNCHANGED <<runVars, step, stmt, sqlFiles, started, committed, pipe_err>>

PipelineStep ==
  \/ PipeConfig
  \/ PipeRunScript
  \/ PipeConnect
  \/ PipeOpenSql
  \/ PipeStatement
  \/ PipeUnified
  \/ PipeSuccess
  \/ PipeFailure

\* database settings of a run of the master script: the URL unset, empty,
\* well formed, without the driver name, or of another database; the parts
\* unset, all set, all set with a port that is no number, or all but one set
PipelineUrls ==
  DatabaseUrls \cup {"postgresql://u:p@h:5432/d", "sqlite:///rentals.db"}

PipelineParts ==
  { [i \in 1..5 |-> None],
    <<"h", "5432", "d", "u", "p">>,
    <<"h", "port", "d", "u", "p">>,
    <<"h", "5432", "d", "u", "">> }

\* the statement lists of the SQL files
StatementLists ==
  UNION {[1..n -> StatementTexts] : n \in 0..MaxStatements}

\* python rental_pipeline.py: the module is imported, nothing has run
InitPipeline ==
  /\ source = "bos_realtor"
  /\ \E url \in PipelineUrls, parts \in PipelineParts :
       settings = Settings("k3y", url, parts)
  /\ pc = "import"
  /\ err = None
  /\ zipIdx = 1
  /\ page = 1
  /\ total_count = NoneNum
  /\ listings = <<>>
  /\ ret = AbortedRet
  /\ FetchEntry
  /\ master_df = <<>>
  /\ table = PriorRows
  /\ prior = table
  /\ served = <<>>
  /\ servedRun = <<>>
  /\ declared = NoneNum
  /\ NoRecord
  /\ ppc = "config"
  /\ step = 0
  /\ stmt = 0
  /\ sqlFiles \in [1..Len(SqlFileNames) -> StatementLists]
  /\ started = <<>>
  /\ committed = <<>>
  /\ pipe_err = None
  /\ status_calls = <<>>
  /\ status_rows = <<>>
  /\ exit_code = NoneNum

SpecPipeline == InitPipeline /\ [][PipelineStep]_vars

(* ================================================================== *)
(* Properties                                                          *)
(* ================================================================== *)

\* the step issued a requests.get
Attempted == nReq' = nReq + 1

\* the step slept and went on to the next attempt for the same partition and
\* page
Retried ==
  /\ pc' = "request"
  /\ attempt' = attempt + 1
  /\ nWaits' = nWaits + 1
  /\ wait_time' > 0
  /\ page' = page
  /\ zipIdx' = zipIdx

\* the step returned the empty result without sleeping
AbortedAtOnce ==
  /\ pc' = "fetched"
  /\ ret' = AbortedRet
  /\ nWaits' = nWaits
  /\ wait_time' = wait_time
  /\ attempt' = attempt

RECURSIVE SumSeq(_)
SumSeq(q) == IF q = <<>> THEN 0 ELSE Head(q) + SumSeq(Tail(q))

CeilDiv(a, b) == (a + b - 1) \div b

\* the cleaned records of the pages 1..Len(sizes) of partition z, page after
\* page, each page in the order the upstream returned it
RECURSIVE FetchedRecords(_, _, _)
FetchedRecords(s, z, sizes) ==
  IF sizes = <<>> THEN <<>>
  ELSE FetchedRecords(s, z, SubSeq(sizes, 1, Len(sizes) - 1))
       \o CleanPage(s, RawPage(s, z, Len(sizes), sizes[Len(sizes)]),
                    Partitions(s)[z].region)

\* the frames of the partitions 1..Len(sizesByZip), concatenated in order
RECURSIVE FetchedDataset(_, _)
FetchedDataset(s, sizesByZip) ==
  IF sizesByZip = <<>> THEN <<>>
  ELSE FetchedDataset(s, SubSeq(sizesByZip, 1, Len(sizesByZip) - 1))
       \o Frame(s, FetchedRecords(s, Len(sizesByZip), sizesByZip[Len(sizesByZip)]))

\* the last fetcher call of the partition gave up (fatal error or retries
\* exhausted)
LastCallAborted == outcome.kind \notin {"ok", "none"}

(* ------------------------------------------------------------------ *)

\* C1: load atomicity. If the insertion of the rows fails after the TRUNCATE
\* was issued, the destination table holds what it held before the run.
C1_LoadAtomicity ==
  (pc = "failed" /\ err = "OperationalError: insert") => table = prior

\* C2: a partition whose pagination ended on an empty or aborted fetch
\* (page 1 included) raises no error: fetch_and_clean_zip returns and the
\* main loop goes on to the next partition or to the aggregation.
C2_PartitionFailureContained ==
  [][(pc = "zipdone" /\ ret.results = <<>>)
       => (pc' \in {"main", "aggregate"} /\ err' = None /\ zipIdx' = zipIdx + 1)]_vars

\* C3: partial results are kept on abort. When page k of a partition ends
\* aborted, the partition's listings are exactly the records of the pages
\* 1..k-1 in fetch order; and the dataset handed to the aggregation is the
\* concatenation, in partition order, of every partition's fetched records.
C3_PartialResultsKept ==
  /\ (pc = "zipdone" /\ LastCallAborted)
       => /\ Len(served) = page - 1
          /\ listings = FetchedRecords(source, zipIdx, served)
  /\ pc = "aggregate" => master_df = FetchedDataset(source, servedRun)

C3_Witness ==
  /\ pc = "zipdone"
  /\ LastCallAborted
  /\ page = 2
  /\ listings # <<>>
  /\ zipIdx = 2
  /\ master_df # <<>>

\* C4: short-page stop rule (Realtor scripts). A page after the first is
\* requested only when every page so far returned exactly 200 records; the
\* loop is left only after a page of fewer than 200 records (an empty or
\* aborted fetch included), and once it is left no request is issued.
C4_ShortPageStopRule ==
  IsRealtor(source) =>
    /\ (pc = "request" /\ page > 1)
         => /\ Len(ret.results) = Limit
            /\ served = [q \in 1..(page - 1) |-> Limit]
    /\ pc = "zipdone"
         => /\ Len(ret.results) < Limit
            /\ \A q \in 1..(page - 1) : served[q] = Limit
            /\ ~ ENABLED FetchStep

C4_Witness ==
  /\ IsRealtor(source)
  /\ pc = "zipdone"
  /\ page = 2
  /\ Len(ret.results) = Limit - 1
  /\ Len(listings) = 2 * Limit - 1

\* C5: declared-total stop rule (Redfin scripts), for a first response that
\* declares a number. A page after the first is requested only while the
\* records fetched so far are fewer than the total the first response
\* declared and the previous page was not empty; the loop is left only on an
\* empty or aborted fetch or with the fetched records at or above that
\* total, and once it is left no request is issued.
C5_DeclaredTotalStopRule ==
  IsRedfin(source) =>
    /\ (pc = "request" /\ page > 1)
         => /\ ~ declared.none
            /\ ret.results # <<>>
            /\ Len(served) = page - 1
            /\ Len(listings) = SumSeq(served)
            /\ Len(listings) < declared.v
    /\ pc = "zipdone"
         => /\ \/ ret.results = <<>>
               \/ ~ declared.none /\ Len(listings) >= declared.v
            /\ Len(listings) = SumSeq(served)
            /\ ~ ENABLED FetchStep

C5_Witness ==
  /\ IsRedfin(source)
  /\ pc = "zipdone"
  /\ page = 2
  /\ ret.results # <<>>
  /\ Len(listings) = declared.v

\* C6: pagination is bounded. Under the short-page policy the page number
\* never exceeds ceil(expected / 200) + 1, expected being the number of
\* listings the upstream returned for the partition; under the declared-total
\* policy it never exceeds the declared total (or 1 when that is 0).
C6_PaginationBounded ==
  pc \in {"request", "fetched", "zipdone"} =>
    /\ IsRealtor(source) => page <= CeilDiv(SumSeq(served), Limit) + 1
    /\ (IsRedfin(source) /\ page > 1) => (~ declared.none /\ page <= declared.v)

C6_Witness ==
  /\ IsRealtor(source)
  /\ pc = "zipdone"
  /\ served = <<Limit>>
  /\ outcome.kind = "ok"
  /\ page = 2

C8_TimeoutRetryable ==
  [][(Attempted /\ outcome'.kind \in {"read_timeout", "connect_timeout"})
       => /\ wait_time' = BackoffFactor * attempt
          /\ nWaits' = nWaits + 1
          /\ attempt' = attempt + 1
          /\ pc' = "request"
          /\ page' = page
          /\ zipIdx' = zipIdx]_vars

\* C9: fatal fetch errors are not retried: an HTTP error status other than
\* 429 and 504, or a transport error that is no timeout, makes the fetcher
\* return the empty result at once, without a wait; no request follows.
C9_FatalNotRetried ==
  /\ [][(Attempted /\ \/ outcome'.kind = "http" /\ outcome'.status \notin {429, 504}
                      \/ outcome'.kind = "connection_error")
          => AbortedAtOnce]_vars
  /\ [](pc = "fetched" => ~ ENABLED FetchStep)

C9_Witness ==
  /\ pc = "fetched"
  /\ outcome = Response("http", 500)
  /\ ret = AbortedRet
  /\ nReq = 2
  /\ nWaits = 1

\* C10: bounded retry. A fetcher call issues at most max_retries requests (3,
\* or 5 in nyc_realtor); when every one of them met a retryable condition the
\* call returns the empty result (with count 0).
C10_BoundedRetry ==
  /\ MaxRetries(source) \in {3, 5}
  /\ nReq <= MaxRetries(source)
  /\ nWaits = MaxRetries(source)
       => \/ pc = "request" /\ ENABLED MaxRetriesExceeded
                /\ ~ ENABLED (RequestSuccess \/ RequestReadTimeout
                              \/ RequestHTTPError \/ RequestException)
          \/ pc = "fetched" /\ ret = [results |-> <<>>, count |-> Num(0)]

C10_Witness ==
  /\ source = "nyc_realtor"
  /\ pc = "fetched"
  /\ nReq = 5
  /\ nWaits = 5
  /\ ret.results = <<>>

\* C11: retry then success. While a call is under way the number of waits
\* slept is the number of attempts made; an attempt that times out and is
\* followed by another attempt sleeps once, backoff_factor * attempt seconds;
\* and an attempt k+1 that succeeds returns the page of that response
\* without a further wait, so a call that timed out k times and then
\* succeeded has slept exactly k times, the i-th time for the duration of
\* attempt i.
C11_RetryThenSuccess ==
  /\ [](pc = "request" => (nWaits = attempt - 1 /\ nReq = attempt - 1))
  /\ [][(Attempted /\ outcome'.kind \in {"read_timeout", "connect_timeout"}
           /\ pc' = "request")
          => /\ wait_time' = BackoffFactor * attempt
             /\ nWaits' = nWaits + 1
             /\ attempt' = attempt + 1]_vars
  /\ [][(Attempted /\ outcome'.kind = "ok")
          => /\ pc' = "fetched"
             /\ \E n \in RealtorPageSizes \cup RedfinPageSizes :
                  ret'.results = RawPage(source, zipIdx, page, n)
             /\ nWaits' = attempt - 1
             /\ nReq' = attempt
             /\ wait_time' = wait_time]_vars

C11_Witness ==
  /\ source = "nyc_realtor"
  /\ pc = "fetched"
  /\ outcome.kind = "ok"
  /\ ret.results # <<>>
  /\ nReq = 3
  /\ nWaits = 2
  /\ wait_time = 4

SameValue(a, b) == a.t = b.t /\ (a.t \in {"str", "float", "num"} => a.v = b.v)

RealtorFields ==
  { "listing_id", "list_price", "beds", "baths", "sqft", "list_date",
    "zip_code", "latitude", "longitude", "address_line", "url", "pet_cats",
    "pet_dogs" }

RedfinFields ==
  { "listing_id", "price_min", "price_max", "beds_min", "beds_max",
    "baths_min", "baths_max", "sqft_min", "sqft_max", "zip_code", "latitude",
    "longitude", "address_line", "url" }

\* C13: the normalizer is total. For every raw record, parse_listing raises
\* nothing and returns a record with every declared field of the provider.
C13_NormalizerTotal ==
  [][pc = "parse"
       => /\ record'.raised = None
          /\ pc' = "clean"
          /\ DOMAIN record'.value
               = (IF IsRealtor(source) THEN RealtorFields ELSE RedfinFields)]_vars

\* the first decimal-or-integer token of str: digits, then optionally a dot
\* and digits; "" when str has no digit
RECURSIVE DecimalToken(_)
DecimalToken(str) ==
  IF Len(str) = 0 THEN ""
  ELSE IF Head(str) \in Digits
  THEN LET whole == Span(str, Digits)
           rest == SubSeq(str, Len(whole) + 1, Len(str))
           frac == IF Len(rest) > 1 /\ Head(rest) = "."
                   THEN Span(Tail(rest), Digits) ELSE ""
       IN IF frac = "" THEN whole ELSE whole \o "." \o frac
  ELSE DecimalToken(Tail(str))

\* the number a free-text value stands for: null for a missing value or a
\* text without a number
ExpectedNumber(v) ==
  IF v.t \in {"null", "missing"} \/ DecimalToken(PyStr(v)) = "" THEN JNull
  ELSE JFloat(FloatValue(DecimalToken(PyStr(v))))

\* C16: free-text numeric parsing. In the Realtor pipelines the step that
\* parses baths (the loop body of nyc_realtor, clean_numeric_column of
\* bos_realtor) raises nothing and leaves the number of the first decimal or
\* integer token of the text, null when there is none.
C16_FreeTextNumeric ==
  [][((pc = "clean" /\ source = "nyc_realtor") \/ pc = "numeric")
       => /\ record'.raised = None
          /\ SameValue(record'.value.baths, ExpectedNumber(record.value.baths))]_vars

\* C17: postal-code enrichment. In the Boston pipelines the enrichment of a
\* record raises nothing; the neighborhood is the dict's entry for the
\* record's own zip_code when that is a key ("02116" gives "Back Bay") and
\* null when it is not a key or is missing.
C17_PostalCodeEnrichment ==
  [][(pc = "enrich" /\ IsBoston(source))
       => /\ record'.raised = None
          /\ LET z == record.value.zip_code
                 n == record'.value.neighborhood
                 keys == {k \in 1..Len(BOS_ZIP_TO_NEIGHBORHOOD) :
                            z.t = "str" /\ BOS_ZIP_TO_NEIGHBORHOOD[k].zip = z.v}
             IN /\ keys # {} => (n.t = "str" /\ \A k \in keys :
                                   n.v = BOS_ZIP_TO_NEIGHBORHOOD[k].region)
                /\ keys = {} => n.t = "null"
                /\ (z.t = "str" /\ z.v = "02116") => n.v = "Back Bay"
                /\ (z.t = "str" /\ z.v = "99999") => n.t = "null"
          /\ record'.value.zip_code = record.value.zip_code]_vars

C17_Witness ==
  /\ pc = "row"
  /\ source = "bos_redfin"
  /\ record.value.zip_code.t = "str"
  /\ record.value.zip_code.v = "02116"
  /\ record.value.neighborhood.t = "str"
  /\ record.value.neighborhood.v = "Back Bay"

\* C18: zip_code invariant. In every record a pipeline has normalized,
\* zip_code is null or a string of exactly five digits.
C18_ZipFiveDigitsOrNull ==
  pc \in {"clean", "enrich", "numeric", "row"}
    => LET z == record.value.zip_code
       IN \/ z.t = "null"
          \/ z.t = "str" /\ Len(z.v) = 5 /\ Span(z.v, Digits) = z.v

\* the path fragment of a raw record, "" when it is absent, null or no text
FragmentOf(s, raw) ==
  LET holder == IF IsRealtor(s) THEN raw ELSE Get(raw, "homeData")
      f == IF IsDict(holder)
           THEN Get(holder, IF IsRealtor(s) THEN "permalink" ELSE "url")
           ELSE JNull
  IN IF f.t = "str" THEN f.v ELSE ""

\* C19: url is never null. For every raw record whose other fields
\* parse_listing can read, it returns a url that is the provider's base URL
\* followed by the record's path fragment, the bare base URL when the
\* fragment is absent, empty or null.
C19_UrlNeverNull ==
  [][(pc = "parse" /\ record'.raised # "AttributeError")
       => /\ record'.raised = None
          /\ record'.value.url.t = "str"
          /\ record'.value.url.v
               = (IF IsRealtor(source) THEN "https://www.realtor.com/rentals/details/"
                                       ELSE "https://www.redfin.com")
                 \o FragmentOf(source, rawItem)]_vars

(* ------------------------------------------------------------------ *)
(* The aggregation and the load                                        *)
(* ------------------------------------------------------------------ *)

\* the listing_id strings of a frame, as astype(str) writes them
IdTexts(rows) == {PyStr(rows[k].listing_id) : k \in 1..Len(rows)}

\* position of the first row of rows whose listing_id is written as id
FirstWith(rows, id) ==
  CHOOSE k \in 1..Len(rows) :
    /\ PyStr(rows[k].listing_id) = id
    /\ \A j \in 1..(k - 1) : PyStr(rows[j].listing_id) # id

\* two prices are the same number
SameNumber(a, b) ==
  /\ (a.t = "null") = (b.t = "null")
  /\ a.t # "null" => FloatValue(PyStr(a)) = FloatValue(PyStr(b))

\* C14: dedup correctness, first seen wins. For every frame handed to the
\* aggregation the result has exactly one row per distinct listing_id
\* (compared as strings), that row has the attributes of the first input row
\* with that id, and the rows kept are in their input order.
C14_DedupFirstSeenWins ==
  [][(pc = "aggregate" /\ master_df # <<>>)
       => LET before == master_df
              after == master_df'
          IN /\ pc' = "engine"
             /\ Len(after) = Cardinality(IdTexts(before))
             /\ {after[j].listing_id.v : j \in 1..Len(after)} = IdTexts(before)
             /\ \A j \in 1..Len(after) :
                  LET f == FirstWith(before, after[j].listing_id.v)
                  IN /\ after[j].z = before[f].z
                     /\ after[j].p = before[f].p
                     /\ after[j].i = before[f].i
                     /\ after[j].zip_code = before[f].zip_code
                     /\ after[j].region = before[f].region
                     /\ SameNumber(after[j].price, before[f].price)
             /\ \A j, k \in 1..Len(after) :
                  j < k => FirstWith(before, after[j].listing_id.v)
                             < FirstWith(before, after[k].listing_id.v)]_vars

\* [A/100, A/200, B/300] was aggregated: two rows, A with the first record's
\* price 100, then B
C14_Witness ==
  /\ pc = "engine"
  /\ Len(master_df) = 2
  /\ master_df[1].listing_id.v = "A"
  /\ master_df[1].i = 1
  /\ master_df[1].price.t = "num"
  /\ master_df[1].price.v = 100
  /\ master_df[2].listing_id.v = "B"
  /\ master_df[2].i = 3
  /\ master_df[2].price.t = "num"
  /\ master_df[2].price.v = 300

\* two frames hold the same rows: as many, and row by row the same id and
\* price (type and text) and the same other attributes
RowText(r) ==
  << r.listing_id.t, PyStr(r.listing_id), r.price.t, PyStr(r.price),
     r.zip_code, r.region, r.z, r.p, r.i >>

SameRows(a, b) == [k \in DOMAIN a |-> RowText(a[k])] = [k \in DOMAIN b |-> RowText(b[k])]

\* C15: the aggregation is deterministic and idempotent. The frame the
\* aggregation step leaves is the one the three steps (ids to strings,
\* keep-first dedup, type coercion) give for the frame it started from,
\* whatever the rest of the state, and the three steps applied to that
\* result give it back unchanged.
C15_AggregationIdempotent ==
  /\ [][(pc = "aggregate" /\ master_df # <<>>)
          => SameRows(master_df', astype(drop_duplicates(IdsAsStr(master_df))))]_vars
  /\ [](pc = "engine"
          => /\ SameRows(astype(drop_duplicates(IdsAsStr(master_df))), master_df)
             /\ SameRows(IdsAsStr(master_df), master_df)
             /\ SameRows(drop_duplicates(master_df), master_df)
             /\ SameRows(astype(master_df), master_df))

\* a frame was aggregated in which a missing id was written as "None", the
\* number 100 as "100", a duplicate of one of them was dropped, and a float
\* price without a fraction was cast to an integer
C15_Witness ==
  /\ pc = "engine"
  /\ Len(master_df) = 2
  /\ master_df[1].listing_id.v = "100"
  /\ master_df[1].i = 1
  /\ master_df[1].price.t = "num"
  /\ master_df[1].price.v = 150
  /\ master_df[2].listing_id.v = "None"
  /\ master_df[2].i = 3

\* C20: a run is idempotent with respect to repeated execution. Whatever the
\* table held before, after a successful run it holds exactly the rows of
\* that run's aggregated dataset, in order: no earlier row survives, and a
\* run that finds the table already holding the dataset leaves it the same.
C20_RunReplacesTable ==
  pc = "done"
    => /\ SameRows(table, master_df)
       /\ SameRows(prior, master_df) => SameRows(table, prior)

\* a successful run over a table that held two rows of another dataset
C20_Witness ==
  /\ pc = "done"
  /\ Len(prior) = 2
  /\ prior[1].listing_id.v = "1"
  /\ Len(table) = 2
  /\ table[1].listing_id.v = "A"
  /\ table[2].listing_id.v = "B"

(* ------------------------------------------------------------------ *)
(* Order of the run                                                    *)
(* ------------------------------------------------------------------ *)

\* the load has begun: the script is at the TRUNCATE, at to_sql or past it
LoadBegun == pc \in {"truncate", "insert", "done"}

\* the pagination of every partition has ended
AllPartitionsCollected ==
  /\ zipIdx = Len(Partitions(source)) + 1
  /\ Len(servedRun) = Len(Partitions(source))

\* C21: the Loader writes once per run and only after all partitions are
\* collected. The table is touched and the load is begun only when the
\* pagination of the last partition has ended; the table is at any time what
\* the run found, or empty (one TRUNCATE), or exactly master_df (one TRUNCATE
\* then one insert); and a finished run has inserted exactly once.
C21_LoadOnceAfterAllPartitions ==
  /\ LoadBegun => AllPartitionsCollected
  /\ table # prior => AllPartitionsCollected
  /\ table = prior \/ table = <<>> \/ table = master_df
  /\ pc \in {"import", "main", "request", "fetched", "zipdone", "aggregate", "engine",
            "truncate"}
       => table = prior
  /\ pc = "insert" => table = <<>>
  /\ pc = "done" => table = master_df /\ master_df # <<>>

\* a run over a table with rows has finished: the rows are gone, the table
\* holds the rows of all partitions
C21_Witness ==
  /\ pc = "done"
  /\ prior # <<>>
  /\ table = master_df
  /\ Len(servedRun) = NumZips
  /\ \A z \in 1..NumZips : \E k \in 1..Len(table) : table[k].z = z

C23_MissingApiKeyHardStop ==
  settings.API_KEY \in {None, ""}
    => /\ pc \in {"import", "failed"}
       /\ pc = "import" => ENABLED ImportModule
       /\ pc = "failed" => err = "RuntimeError: Missing API_KEY"
       /\ nReq = 0
       /\ outcome = NoResponse
       /\ served = <<>> /\ servedRun = <<>>
       /\ master_df = <<>>
       /\ table = prior

\* a run with an empty API_KEY has failed at the key check
C23_Witness ==
  /\ settings.API_KEY = ""
  /\ pc = "failed"
  /\ err = "RuntimeError: Missing API_KEY"
  /\ table = prior

\* neither DATABASE_URL nor all five DB_* parts are set
DatabaseNotDescribed ==
  /\ settings.DATABASE_URL \in {None, ""}
  /\ \/ settings.DB_HOST \in {None, ""}
     \/ settings.DB_PORT \in {None, ""}
     \/ settings.DB_NAME \in {None, ""}
     \/ settings.DB_USER \in {None, ""}
     \/ settings.DB_PASSWORD \in {None, ""}

\* C24: a missing database description is a hard stop before any load
\* activity. When neither DATABASE_URL nor all five DB_* parts are set, the
\* script gets no further than create_engine: it fails there with the
\* RuntimeError of get_sqlalchemy_url, it never is at the TRUNCATE or at
\* to_sql, and the table is as the run found it.
C24_MissingDatabaseHardStop ==
  DatabaseNotDescribed
    => /\ pc \in {"engine", "failed"}
       /\ pc = "engine" => ENABLED CreateEngine
       /\ pc = "failed" => err = "RuntimeError: Database configuration is missing"
       /\ table = prior

\* a run with an empty DATABASE_URL and four of the five parts has failed at
\* create_engine, over a table that holds rows
C24_Witness ==
  /\ pc = "failed"
  /\ err = "RuntimeError: Database configuration is missing"
  /\ settings.DATABASE_URL = ""
  /\ settings.DB_HOST = "x" /\ settings.DB_PORT = "x" /\ settings.DB_NAME = "x"
  /\ settings.DB_USER = "x" /\ settings.DB_PASSWORD = None
  /\ table = PriorRows

(* ------------------------------------------------------------------ *)
(* The master pipeline                                                 *)
(* ------------------------------------------------------------------ *)

\* C25: the exit status reflects the run as a whole. A process of the master
\* script that has ended has status 0 exactly when no step of it failed.
C25_ExitStatusReflectsRun ==
  ppc = "exited" => (exit_code = Num(0) <=> pipe_err = None)

(* ------------------------------------------------------------------ *)
(* Declared total of zero or none                                      *)
(* ------------------------------------------------------------------ *)

\* C26: a zero or absent declared total is immediately terminal. When the
\* response to the first page of a partition declares a total of zero or no
\* total (key missing, counted as 0, or null), the step that follows the
\* response leaves the loop: no second page is requested and no error is
\* raised.
C26_ZeroOrAbsentTotalTerminal ==
  [][ ( /\ IsRedfin(source)
        /\ pc = "fetched"
        /\ page = 1
        /\ outcome.kind = "ok"
        /\ (ret.count.none \/ ret.count.v = 0) )
      => (pc' = "zipdone" /\ page' = 1 /\ err' = err) ]_vars

(* ------------------------------------------------------------------ *)
(* Short-page completeness                                             *)
(* ------------------------------------------------------------------ *)

\* C27: short-page completeness (Realtor scripts). When the pagination of a
\* partition ended and no fetch of it was aborted, the listings are exactly
\* the records of every requested page in order, every page but the last
\* requested one had 200 records and the last had fewer; when the number of
\* records is k * 200 with k >= 1, exactly k + 1 pages were requested and the
\* last one returned nothing.
C27_ShortPageCompleteness ==
  (IsRealtor(source) /\ pc = "zipdone" /\ ~ LastCallAborted)
    => /\ listings = FetchedRecords(source, zipIdx, served)
       /\ Len(listings) = SumSeq(served)
       /\ Len(ret.results) < Limit
       /\ \A q \in 1..(page - 1) : served[q] = Limit
       /\ page = Len(served) + (IF ret.results = <<>> THEN 1 ELSE 0)
       /\ (Len(listings) > 0 /\ Len(listings) % Limit = 0)
            => /\ page = (Len(listings) \div Limit) + 1
               /\ ret.results = <<>>

C27_Witness ==
  /\ IsRealtor(source)
  /\ pc = "zipdone"
  /\ ~ LastCallAborted
  /\ Len(listings) = Limit
  /\ page = 2
  /\ ret.results = <<>>

(* ------------------------------------------------------------------ *)
(* Order of the requests                                               *)
(* ------------------------------------------------------------------ *)

\* C28: fetching is strictly sequential. The page number changes only by one
\* step up, after the fetcher returned a non-empty page for the current page
\* number, or back to 1 when the partition's pagination has ended; every
\* request is for the current partition and page; a fetcher call is started
\* either for page 1 of a partition with no listings yet or for the page
\* after the one just returned; the partition changes only to the next one
\* and only after the pagination of the current one has ended.
C28_StrictlySequential ==
  [][ /\ page' # page
           => \/ /\ page' = page + 1
                 /\ zipIdx' = zipIdx
                 /\ pc = "fetched"
                 /\ outcome.kind = "ok"
                 /\ ret.results # <<>>
                 /\ pc' = "request"
              \/ /\ page' = 1
                 /\ pc = "zipdone"
      /\ Attempted
           => /\ pc = "request"
              /\ page' = page
              /\ zipIdx' = zipIdx
      /\ (pc' = "request" /\ pc # "request")
           => \/ /\ pc = "main"
                 /\ page' = 1
                 /\ listings' = <<>>
                 /\ zipIdx' = zipIdx
              \/ /\ pc = "fetched"
                 /\ page' = page + 1
      /\ zipIdx' # zipIdx
           => /\ pc = "zipdone"
              /\ zipIdx' = zipIdx + 1 ]_vars

C28_Witness ==
  /\ pc = "request"
  /\ zipIdx = 2
  /\ page = 2
  /\ nReq = 1
  /\ Len(servedRun) = 1
  /\ Len(servedRun[1]) = 2

(* ------------------------------------------------------------------ *)
(* Records without a listing id                                        *)
(* ------------------------------------------------------------------ *)

\* the rows of a frame whose listing id is missing (None or NaN)
MissingRows(rows) ==
  {k \in 1..Len(rows) : rows[k].listing_id.t \in {"null", "nan"}}

\* the texts astype(str) writes for the missing listing ids of a frame
Placeholders(rows) == {PyStr(rows[k].listing_id) : k \in MissingRows(rows)}

\* C29: missing-id collapse. When the frame handed to the aggregation has
\* records without a listing id, all of them get one and the same
\* placeholder text, and the result holds exactly one row with that text:
\* the first record of the input with it, be its id missing or a real id
\* that reads like the placeholder.
C29_MissingIdCollapse ==
  [][(pc = "aggregate" /\ master_df # <<>> /\ MissingRows(master_df) # {})
       => LET before == master_df
              after == master_df'
              held == {j \in 1..Len(after) :
                         after[j].listing_id.v \in Placeholders(before)}
          IN /\ Cardinality(Placeholders(before)) = 1
             /\ Cardinality(held) = 1
             /\ \A j \in held :
                  LET f == FirstWith(before, after[j].listing_id.v)
                  IN /\ after[j].z = before[f].z
                     /\ after[j].i = before[f].i
                     /\ f <= CHOOSE k \in MissingRows(before) :
                               \A m \in MissingRows(before) : k <= m]_vars

(* ------------------------------------------------------------------ *)
(* Region of the NYC records                                           *)
(* ------------------------------------------------------------------ *)

\* the borough tag of partition z
Tag(z) == Partitions(source)[z].region

\* the run is past the aggregation
Aggregated == pc \in {"engine", "truncate", "insert", "done"}

\* C30: pre-tagged region (NYC scripts). Every record collected for the
\* current partition and every row of master_df carries the borough tag of
\* the partition whose pagination fetched it, whatever its own postal code;
\* and when the deduplication is done every row is the record of the first
\* partition that returned its listing, with that partition's borough.
C30_PreTaggedRegion ==
  ~ IsBoston(source) =>
    /\ \A k \in 1..Len(listings) :
         listings[k].z = zipIdx /\ listings[k].region = Tag(zipIdx)
    /\ \A k \in 1..Len(master_df) : master_df[k].region = Tag(master_df[k].z)
    /\ pc = "engine" =>
         LET before == FetchedDataset(source, servedRun)
             fetched == {<<PyStr(before[k].listing_id), before[k].z>> :
                           k \in 1..Len(before)}
         IN \A j \in 1..Len(master_df) :
              /\ <<master_df[j].listing_id.v, master_df[j].z>> \in fetched
              /\ \A z \in 1..(master_df[j].z - 1) :
                   <<master_df[j].listing_id.v, z>> \notin fetched

\* two partitions of different boroughs returned listing 1001; after the
\* deduplication it carries the first one's borough, and another record the
\* second partition fetched carries the second borough though its postal
\* code is one of the first
C30_Witness ==
  /\ ~ IsBoston(source)
  /\ Aggregated
  /\ Len(servedRun) = 2
  /\ servedRun[1] # <<>>
  /\ servedRun[2] # <<>>
  /\ Tag(1) # Tag(2)
  /\ master_df[1].listing_id.v = "1001"
  /\ master_df[1].region = Tag(1)
  /\ \E k \in 1..Len(master_df) :
       /\ master_df[k].z = 2
       /\ master_df[k].zip_code = Partitions(source)[1].zip
       /\ BoroughOf(master_df[k].zip_code) = Tag(1)
       /\ master_df[k].region = Tag(2)

(* ------------------------------------------------------------------ *)
(* Order and containment of the master pipeline                        *)
(* ------------------------------------------------------------------ *)

\* the steps of the main block in the order the script lists them
StepOrder == ScriptLabels \o SqlFileNames \o << "unified listings table" >>

\* every statement of the unified-table build ran
UnifiedBuilt ==
  \A k \in 1..Len(UnifiedStatements) :
    \E c \in 1..Len(committed) : committed[c] = << "unified", k >>

\* the steps started so far are the first ones of the order, each once
StartedInOrder ==
  /\ Len(started) <= Len(StepOrder)
  /\ started = SubSeq(StepOrder, 1, Len(started))

\* the main block ended after a step of it failed
EndedFailed == ppc = "exited" /\ pipe_err # None /\ status_calls # <<>>

\* C31 as stated: the steps start in the listed order; once a step has
\* failed no step is started; a run that ended after a failed step has
\* recorded one FAILURE row with the error as details; a SUCCESS status is
\* written only when every step completed.
C31_FailureRecorded ==
  /\ [](StartedInOrder)
  /\ [][pipe_err # None => started' = started]_vars
  /\ [](EndedFailed
          => status_rows = << [status |-> "FAILURE", details |-> pipe_err] >>)
  /\ [](\A c \in 1..Len(status_calls) :
          status_calls[c].status = "SUCCESS"
            => pipe_err = None /\ started = StepOrder /\ UnifiedBuilt)

\* C31 amended: the steps start in the listed order; once a step has failed
\* no step is started; a run that ended after a failed step has called
\* update_status once, with FAILURE and the error as details, and holds no
\* row other than that one; a SUCCESS status is written only when every
\* step completed.
C31_FailureContainment ==
  /\ [](StartedInOrder)
  /\ [][pipe_err # None => started' = started]_vars
  /\ [](EndedFailed
          => /\ status_calls = << [status |-> "FAILURE", details |-> pipe_err] >>
             /\ status_rows \in {<<>>, status_calls})
  /\ [](\A c \in 1..Len(status_calls) :
          status_calls[c].status = "SUCCESS"
            => pipe_err = None /\ started = StepOrder /\ UnifiedBuilt)

\* the third ingestion script failed: two scripts ran before it, nothing
\* after it, and the FAILURE row is written
C31_Witness ==
  /\ ppc = "exited"
  /\ pipe_err = "CalledProcessError"
  /\ started = SubSeq(ScriptLabels, 1, 3)
  /\ committed = <<>>
  /\ Len(status_rows) = 1
  /\ status_rows[1].status = "FAILURE"

(* ------------------------------------------------------------------ *)
(* Aborted and empty fetches                                           *)
(* ------------------------------------------------------------------ *)

\* C32: an aborted fetch and an empty page are the same to the paginator.
\* A fetcher call always returns, and one that gave up returns the empty
\* result; from an empty result, whatever the outcome behind it and whatever
\* count came with it, the loop is left with the listings and the page
\* number as they were and no error; and what the caller then gets is a
\* function of the listings alone, with no further request.
C32_AbortedLikeEmpty ==
  /\ [][(pc = "request" /\ pc' # "request")
          => /\ pc' = "fetched"
             /\ outcome'.kind # "ok" => ret'.results = <<>>]_vars
  /\ [][(pc = "fetched" /\ ret.results = <<>>)
          => /\ pc' = "zipdone"
             /\ listings' = listings
             /\ page' = page
             /\ err' = err
             /\ master_df' = master_df]_vars
  /\ [][pc = "zipdone"
          => IF FrameRaises(source, listings)
             THEN pc' = "failed" /\ master_df' = master_df
             ELSE /\ master_df' = concat(master_df, Frame(source, listings))
                  /\ err' = err
                  /\ pc' \in {"main", "aggregate"}]_vars
  /\ [](pc = "zipdone" => ~ ENABLED FetchStep)

\* the second page of a Redfin partition came back empty with a declared
\* total that the listings have not reached: the loop is left as after an
\* aborted fetch
C32_Witness ==
  /\ IsRedfin(source)
  /\ pc = "zipdone"
  /\ outcome.kind = "ok"
  /\ ret.results = <<>>
  /\ ~ ret.count.none
  /\ ret.count.v > Len(listings)
  /\ page = 2
  /\ Len(listings) = 1

(* ------------------------------------------------------------------ *)
(* Waits of a fetcher call                                             *)
(* ------------------------------------------------------------------ *)

\* the outcome of an attempt is one the fetcher retries: a read timeout or
\* an HTTP status it sleeps on
RetriedOutcome(o) ==
  \/ o.kind = "read_timeout"
  \/ o.kind = "http" /\ Retryable(source, o.status)

\* C33: a backoff wait follows every retryable failure, the last included.
\* Every attempt that meets a condition the fetcher retries is followed by
\* one wait, every other attempt by none, so the waits slept are as many as
\* the retryable failures; and a call that gave up after such a failure has
\* made max_retries attempts and slept max_retries times.
C33_WaitAfterEveryRetryableFailure ==
  /\ [][(Attempted /\ RetriedOutcome(outcome'))
          => /\ nWaits' = nWaits + 1
             /\ wait_time' > 0
             /\ pc' = "request"]_vars
  /\ [][(Attempted /\ ~ RetriedOutcome(outcome')) => nWaits' = nWaits]_vars
  /\ [](RetriedOutcome(outcome) => nWaits = nReq)
  /\ []((outcome.kind # "none" /\ ~ RetriedOutcome(outcome)) => nWaits = nReq - 1)
  /\ []((pc = "fetched" /\ RetriedOutcome(outcome))
          => /\ nReq = MaxRetries(source)
             /\ nWaits = MaxRetries(source)
             /\ ret = AbortedRet)

\* the Boston Realtor fetcher gave up after three read timeouts: three
\* requests, three waits, the last of 6 seconds
C33_Witness ==
  /\ source = "bos_realtor"
  /\ pc = "fetched"
  /\ outcome.kind = "read_timeout"
  /\ nReq = 3
  /\ nWaits = 3
  /\ wait_time = 6

(* ------------------------------------------------------------------ *)
(* The declared total of a partition                                   *)
(* ------------------------------------------------------------------ *)

\* C34: the declared total is fixed by the first fetch outcome of a
\* partition (Redfin scripts). The step after the first fetcher call sets
\* total_count to the count that call returned, 0 when the call was aborted;
\* from the second page on total_count is the first call's count, the step
\* after a fetcher call leaves it as it is whatever count that call returned,
\* and the loop ends after a non-empty page exactly when the accumulated
\* listings have reached the first call's count.
C34_DeclaredTotalFixedByFirstFetch ==
  /\ [][(IsRedfin(source) /\ pc = "fetched" /\ page = 1)
          => /\ total_count' = ret.count
             /\ total_count' = declared
             /\ LastCallAborted => total_count' = Num(0)]_vars
  /\ [][(IsRedfin(source) /\ pc = "fetched" /\ page > 1)
          => /\ total_count' = total_count
             /\ ret.results # <<>>
                  => (pc' = "zipdone" <=> Len(listings') >= declared.v)]_vars
  /\ []((IsRedfin(source) /\ pc \in {"request", "fetched", "zipdone"} /\ page > 1)
          => (total_count = declared /\ ~ total_count.none))

\* the second page of a Redfin partition came back declaring another total
\* than the first page did
C34_Witness ==
  /\ IsRedfin(source)
  /\ pc = "zipdone"
  /\ page = 2
  /\ outcome.kind = "ok"
  /\ ret.results # <<>>
  /\ ~ ret.count.none
  /\ ret.count.v < total_count.v
  /\ ret.count.v <= Len(listings) - Len(ret.results)
  /\ total_count = declared

(* ------------------------------------------------------------------ *)
(* A run without records                                               *)
(* ------------------------------------------------------------------ *)

\* C35: an empty aggregated dataset never reaches the Loader. Whenever the
\* load has begun or the table differs from what the run found, master_df
\* has rows; a run whose partitions have all been collected without a record
\* is at the aggregation step or has failed, and its table holds its prior
\* rows; and the aggregation step on a frame without rows fails the run and
\* leaves the table alone.
C35_EmptyDatasetNeverLoaded ==
  /\ [](LoadBegun => master_df # <<>>)
  /\ [](table # prior => master_df # <<>>)
  /\ []((AllPartitionsCollected /\ master_df = <<>>)
          => (pc \in {"aggregate", "failed"} /\ table = prior))
  /\ [][(pc = "aggregate" /\ master_df = <<>>)
          => (pc' = "failed" /\ err' # None /\ table' = table)]_vars

\* a Boston Redfin run whose partitions all came back empty failed on the
\* listing_id column of its frame; the table holds the rows it held
C35_Witness ==
  /\ source = "bos_redfin"
  /\ pc = "failed"
  /\ err = "KeyError: 'listing_id'"
  /\ AllPartitionsCollected
  /\ master_df = <<>>
  /\ prior # <<>>
  /\ table = prior

(* ------------------------------------------------------------------ *)
(* Status writes of the master pipeline                                *)
(* ------------------------------------------------------------------ *)

\* the module-level configuration was read and the main block entered
ReachedMain == step >= 1

\* C36: exactly one status write is attempted per master-pipeline run. At
\* most one update_status call is made in a run, and none before the run
\* ends; a run that entered the main block and ended has made exactly one,
\* SUCCESS when no step failed and FAILURE otherwise; the step that makes
\* the call ends the run with exit status 0 whether the row was written or
\* not, and a call whose write failed leaves no row and no error behind.
C36_OneStatusWrite ==
  /\ [](Len(status_calls) <= 1)
  /\ [](ppc # "exited" => status_calls = <<>>)
  /\ []((ppc = "exited" /\ ReachedMain)
          => /\ Len(status_calls) = 1
             /\ status_calls[1].status \in {"SUCCESS", "FAILURE"}
             /\ status_calls[1].status = "SUCCESS" <=> pipe_err = None)
  /\ []((ppc = "exited" /\ ~ ReachedMain) => status_calls = <<>>)
  /\ [][status_calls' # status_calls
          => /\ ppc' = "exited"
             /\ exit_code' = Num(0)
             /\ pipe_err' = pipe_err
             /\ status_rows' \in {status_rows, status_calls'}]_vars

\* every step completed, the one update_status call was for SUCCESS, its
\* write failed and was logged: no row, exit status 0
C36_Witness ==
  /\ ppc = "exited"
  /\ ReachedMain
  /\ pipe_err = None
  /\ UnifiedBuilt
  /\ status_calls = << [status |-> "SUCCESS", details |-> "Pipeline completed successfully."] >>
  /\ status_rows = <<>>
  /\ exit_code = Num(0)

(* ------------------------------------------------------------------ *)
(* execute_sql: one commit per statement                               *)
(* ------------------------------------------------------------------ *)

\* the statements of SQL file f that are not blank
NonBlank(f) == {k \in 1..Len(sqlFiles[f]) : Strip(sqlFiles[f][k]) # ""}

\* the statements of SQL file f whose effects are committed
CommittedOf(f) ==
  {k \in 1..Len(sqlFiles[f]) :
     \E c \in 1..Len(committed) : committed[c] = << SqlFileNames[f], k >>}

\* execute_sql was entered for SQL file f and no later step was started
InExecuteSql(f) ==
  /\ step = f
  /\ started # <<>>
  /\ started[Len(started)] = SqlFileNames[f]

\* C37: execute_sql commits per statement. While execute_sql works on a
\* file, and after it failed there, the committed statements of the file
\* are exactly its non-blank statements before the current one, committed
\* in file order; a statement is passed only by being blank or by being
\* executed and committed in the same step; when statement k fails nothing
\* of it is committed, the error is raised, the run goes to the except block
\* with statement k still the current one, and from then on nothing more is
\* committed, so statements k+1.. never run and 1..k-1 stay committed; a
\* file that execute_sql returned from has all non-blank statements
\* committed.
C37_CommitPerStatement ==
  /\ [](\A f \in 1..Len(SqlFileNames) :
          (InExecuteSql(f) /\ ppc \in {"statement", "failure", "exited"})
            => CommittedOf(f) = {k \in NonBlank(f) : k < stmt})
  /\ [](\A i, j \in 1..Len(committed) :
          (i < j /\ committed[i][1] = committed[j][1])
            => committed[i][2] < committed[j][2])
  /\ [](\A f \in 1..Len(SqlFileNames) :
          (ppc \in {"sqlfile", "statement"} /\ f < step) => CommittedOf(f) = NonBlank(f))
  /\ [][(ppc = "statement" /\ stmt' = stmt + 1 /\ stmt \in NonBlank(step))
          => committed' = Append(committed, << SqlFileNames[step], stmt >>)]_vars
  /\ [][(ppc = "statement" /\ ppc' = "failure")
          => /\ stmt \in NonBlank(step)
             /\ committed' = committed
             /\ stmt' = stmt
             /\ step' = step
             /\ pipe_err' = "ProgrammingError"]_vars
  /\ [][(ppc \in {"failure", "exited"}) => (committed' = committed)]_vars

\* the second statement of the first SQL file failed: the first stays
\* committed, nothing else ran, the run ended in the except block
C37_Witness ==
  /\ ppc = "exited"
  /\ pipe_err = "ProgrammingError"
  /\ InExecuteSql(1)
  /\ NonBlank(1) = {1, 2}
  /\ stmt = 2
  /\ committed = << << SqlFileNames[1], 1 >> >>

(* ------------------------------------------------------------------ *)
(* safe_get                                                            *)
(* ------------------------------------------------------------------ *)

\* the keys of the nested postal-code and coordinate paths of a script's
\* raw records, and one no record holds
PathKeys(s) ==
  IF IsRealtor(s)
  THEN { "location", "address", "postal_code", "absent" }
  ELSE { "homeData", "addressInfo", "centroid", "absent" }

MaxPathLen == 3

\* the key sequences of at most MaxPathLen keys
KeyPaths == UNION {[1..n -> PathKeys(source)] : n \in 0..MaxPathLen}

\* every value on the way is a dict that holds the next key
RECURSIVE Linked(_, _)
Linked(obj, keys) ==
  \/ keys = <<>>
  \/ /\ IsDict(obj)
     /\ HasKey(obj, Head(keys))
     /\ Linked(obj.v[Head(keys)], Tail(keys))

\* the value at the end of a linked path
RECURSIVE Follow(_, _)
Follow(obj, keys) ==
  IF keys = <<>> THEN obj ELSE Follow(obj.v[Head(keys)], Tail(keys))

\* two values are the same Python value
RECURSIVE SameJson(_, _)
SameJson(a, b) ==
  /\ a.t = b.t
  /\ a.t \in {"str", "float", "num"} => a.v = b.v
  /\ a.t = "obj" => /\ DOMAIN a.v = DOMAIN b.v
                    /\ \A k \in DOMAIN a.v : SameJson(a.v[k], b.v[k])

\* safe_get(obj, *keys) is the value at the path when the path is linked,
\* None when it is not, and obj itself for no keys
SafeGetWalks(obj) ==
  /\ SameJson(safe_get(obj, <<>>), obj)
  /\ \A keys \in KeyPaths :
       SameJson(safe_get(obj, keys),
                IF Linked(obj, keys) THEN Follow(obj, keys) ELSE JNull)

\* C38: safe_get never raises and returns null as soon as a link of the key
\* path is absent or not a dict. Once parse_listing has run on a raw record:
\* for the record, for each value it holds under a key (a dict, a text,
\* None, or none), and for None, a text and a number, and for every sequence
\* of at most MaxPathLen keys, safe_get gives a value: the value at the
\* nested path when every value on the way is a dict that holds the next
\* key, None otherwise, and the value itself for the empty key sequence.
C38_SafeGetWalksPath ==
  pc \in {"clean", "failed"} =>
    /\ SafeGetWalks(rawItem)
    /\ \A k \in PathKeys(source) : SafeGetWalks(Get(rawItem, k))
    /\ SafeGetWalks(JNull)
    /\ SafeGetWalks(JStr("Boston"))
    /\ SafeGetWalks(JNum(7))

\* a Realtor record whose "location" is a text was parsed: the path
\* location, address met a value that is no dict, and the record has no
\* postal code
C38_Witness ==
  /\ IsRealtor(source)
  /\ pc = "clean"
  /\ Get(rawItem, "location").t = "str"
  /\ ~ Linked(rawItem, << "location", "address" >>)
  /\ record.raised = None
  /\ record.value.zip_code.t = "null"

====
